---- MODULE Spec2Model ----
(***************************************************************************)
(* Model of the namespaced key-value store of pimp-my-ride-mcp:            *)
(* SQLiteKV (storage/sqlite.ts) behind the KV interface (storage/kv.ts).   *)
(*                                                                         *)
(* The kv table is a function from (ns, key) to an optional row.  Every    *)
(* method of SQLiteKV is an async function whose body runs synchronously   *)
(* up to its first await; the only await inside the store is the           *)
(* `await this.get(ns, key)` of the CAS branch of set, so a CAS set is two *)
(* steps (set, setAfterAwait) and every other operation is one step.       *)
(* Callers are independent request handlers: their steps interleave at     *)
(* that await in any order.                                                *)
(* Optional values (undefined, null, SQL NULL, no row) are sequences of    *)
(* length 0 or 1.                                                          *)
(***************************************************************************)
EXTENDS Integers, Sequences, FiniteSets, TLC

VARIABLES
  store,    \* the kv table: [ns, key] -> optional row
  now,      \* the value Date.now() returns, in milliseconds
  pend,     \* per caller: the frame of a set suspended at its await
  ret,      \* the last completed operation and its outcome
  obs,      \* history: the last version a caller read with get, and
            \* what was done to that row since (kept by SpecObs only)
  open,     \* whether the database connection #db is open
  transports  \* index.ts: the transport of every registered session id

vars == <<store, now, pend, ret, obs, open, transports>>

----------------------------------------------------------------------------
(* Bounds *)

MaxVersion == 2      \* writes stop once a row has reached this version
MaxTicks == 2        \* the clock advances at most this many times
MaxWrites == 3       \* the build tools stop writing a row at this version
MaxItems == 2        \* the longest array handed to createTextResult
TickMs == 1000 \div 2   \* the clock steps by half a ttl second (ms)

Callers == {"c1", "c2"}
Namespaces == {"builds"}
KeyNames == {"u1:active"}
JSON == "application/json"
ContentTypes == {JSON, "text/plain"}

None == <<>>
Some(x) == <<x>>
Opt(S) == {None} \cup {Some(x) : x \in S}

\* what each caller writes: its own value, one a string stored with the
\* default content type and one a Buffer with an explicit content type
\* (strings and buffers are sequences of text chunks)
Payload(c) ==
  IF c = "c1" THEN [value |-> <<"red">>, contentType |-> None]
  ELSE [value |-> <<"blue">>, contentType |-> Some("text/plain")]

TtlInputs == Opt({1})
CasInputs == Opt(0 .. MaxVersion)
GetInputs == {None}

\* every kind of ttl: absent, 0 (falsy) or one second
TtlOptions == Opt({0, 1})
\* every kind of options.contentType of get: absent, '' (falsy) or a type
GetOptions == Opt(ContentTypes \cup {""})

----------------------------------------------------------------------------
(* Serialization of a value (set) and its inverse (get) *)

JSONstringify(v) == <<"\"">> \o v \o <<"\"">>
JSONparse(text) == SubSeq(text, 2, Len(text) - 1)

serialize(value, contentType) ==
  IF contentType = JSON THEN JSONstringify(value) ELSE value

parse(row) ==
  IF row.content_type = JSON THEN JSONparse(row.value) ELSE row.value

----------------------------------------------------------------------------
(* SQL statements as functions of the table *)

K(ns, key) == <<ns, key>>

\* faulty variant: expires_at < ? leaves the entry readable at its expiry instant
isExpired_strict(row, t) == row.expires_at # None /\ row.expires_at[1] < t

\* expires_at IS NOT NULL AND expires_at <= ?
isExpired(row, t) == row.expires_at # None /\ row.expires_at[1] <= t

\* faulty variant: the expired row is left where it is
cleanupExpired_skipped(db, ns, key, t) == db

\* faulty variant: AND key = ? is missing, every expired row of ns goes
cleanupExpired_anyKey(db, ns, key, t) ==
  [k \in DOMAIN db |->
     IF k[1] = ns /\ db[k] # None /\ isExpired(db[k][1], t) THEN None
     ELSE db[k]]

\* #cleanupExpired: DELETE ... WHERE ns = ? AND key = ? AND expired
cleanupExpired(db, ns, key, t) ==
  IF db[K(ns, key)] # None /\ isExpired(db[K(ns, key)][1], t)
  THEN [db EXCEPT ![K(ns, key)] = None]
  ELSE db

\* the value get returns, reading the table left by #cleanupExpired
getResult(db, ns, key, options, t) ==
  LET row == cleanupExpired(db, ns, key, t)[K(ns, key)]
  IN IF row = None THEN None
     ELSE IF /\ options # None /\ options[1] # ""
             /\ row[1].content_type # options[1] THEN None
     ELSE Some([value |-> parse(row[1]),
                metadata |-> [version |-> row[1].version,
                              expiresAt |-> row[1].expires_at,
                              updatedAt |-> row[1].updated_at,
                              contentType |-> row[1].content_type]])

\* faulty variant: ttl !== undefined, so that a ttl of 0 expires at once
expiresAtOf_zeroExpires(ttl, t) ==
  IF ttl # None THEN Some(t + ttl[1] * 1000) ELSE None

\* const expiresAt = ttl ? now + ttl * 1000 : null
expiresAtOf(ttl, t) ==
  IF ttl # None /\ ttl[1] # 0 THEN Some(t + ttl[1] * 1000) ELSE None

\* contentType = 'application/json' by default
contentTypeOf(opt) == IF opt = None THEN JSON ELSE opt[1]

\* faulty variant: INSERT OR REPLACE, the row starts again at version 1
upsert_replace(db, ns, key, serialized, contentType, expiresAt, t) ==
  [db EXCEPT ![K(ns, key)] =
     Some([value |-> serialized,
           content_type |-> contentType,
           version |-> 1,
           expires_at |-> expiresAt,
           updated_at |-> t])]

\* faulty variant: expires_at = COALESCE(excluded.expires_at, expires_at)
upsert_keepsExpiry(db, ns, key, serialized, contentType, expiresAt, t) ==
  [db EXCEPT ![K(ns, key)] =
     Some([value |-> serialized,
           content_type |-> contentType,
           version |-> IF @ = None THEN 1 ELSE @[1].version + 1,
           expires_at |-> IF expiresAt = None /\ @ # None
                          THEN @[1].expires_at ELSE expiresAt,
           updated_at |-> t])]

\* INSERT ... ON CONFLICT(ns, key) DO UPDATE SET ... version = version + 1
upsert(db, ns, key, serialized, contentType, expiresAt, t) ==
  [db EXCEPT ![K(ns, key)] =
     Some([value |-> serialized,
           content_type |-> contentType,
           version |-> IF @ = None THEN 1 ELSE @[1].version + 1,
           expires_at |-> expiresAt,
           updated_at |-> t])]

\* faulty variant: the UPDATE has no version = ? condition
casUpdateMatches_anyVersion(db, ns, key, cas) == db[K(ns, key)] # None

\* UPDATE kv SET ..., version = version + 1 WHERE ns, key, version = ?
casUpdateMatches(db, ns, key, cas) ==
  db[K(ns, key)] # None /\ db[K(ns, key)][1].version = cas

\* faulty variant: the UPDATE forgets version = version + 1
casUpdate_stale(db, ns, key, serialized, contentType, expiresAt, t, cas) ==
  IF casUpdateMatches(db, ns, key, cas)
  THEN [db EXCEPT ![K(ns, key)] =
          Some([value |-> serialized,
                content_type |-> contentType,
                version |-> @[1].version,
                expires_at |-> expiresAt,
                updated_at |-> t])]
  ELSE db

\* faulty variant: the UPDATE sets value and leaves content_type as it was
casUpdate_keepsType(db, ns, key, serialized, contentType, expiresAt, t, cas) ==
  IF casUpdateMatches(db, ns, key, cas)
  THEN [db EXCEPT ![K(ns, key)] =
          Some([value |-> serialized,
                content_type |-> @[1].content_type,
                version |-> @[1].version + 1,
                expires_at |-> expiresAt,
                updated_at |-> t])]
  ELSE db

casUpdate(db, ns, key, serialized, contentType, expiresAt, t, cas) ==
  IF casUpdateMatches(db, ns, key, cas)
  THEN [db EXCEPT ![K(ns, key)] =
          Some([value |-> serialized,
                content_type |-> contentType,
                version |-> @[1].version + 1,
                expires_at |-> expiresAt,
                updated_at |-> t])]
  ELSE db

\* faulty variant: only a newer expectation is rejected
versionMismatch_older(current, cas) == current[1].metadata.version < cas

\* if (current.metadata.version !== cas)
versionMismatch(current, cas) == current[1].metadata.version # cas

\* faulty variant: a soft delete that marks the row expired and keeps it
deleteRow_tombstone(db, ns, key) ==
  [db EXCEPT ![K(ns, key)] =
     IF @ = None THEN None ELSE Some([@[1] EXCEPT !.expires_at = Some(0)])]

\* DELETE FROM kv WHERE ns = ? AND key = ?
deleteRow(db, ns, key) == [db EXCEPT ![K(ns, key)] = None]

\* faulty variant: rows at their expiry instant are left in place
deleteAllExpired_past(db, t) ==
  [k \in DOMAIN db |->
     IF db[k] # None /\ isExpired_strict(db[k][1], t) THEN None ELSE db[k]]

\* DELETE FROM kv WHERE expires_at IS NOT NULL AND expires_at <= ?
deleteAllExpired(db, t) ==
  [k \in DOMAIN db |->
     IF db[k] # None /\ isExpired(db[k][1], t) THEN None ELSE db[k]]

----------------------------------------------------------------------------
(* list: keys are sequences of ASCII codes, so that they can be compared,   *)
(* matched by LIKE and base64-encoded as SQLite and Buffer do               *)

Ascii == [A |-> 65, a |-> 97, b |-> 98, percent |-> 37, underscore |-> 95,
          colon |-> 58, u |-> 117, z |-> 122, Z |-> 90, zero |-> 48,
          nine |-> 57]

ListNamespaces == {"builds", "garage"}
\* the keys "A", "a_" and "ab"
ListKeys == {<<Ascii.A>>, <<Ascii.a, Ascii.underscore>>, <<Ascii.a, Ascii.b>>}
\* the rows the list scenarios use: three keys in one namespace, one of them
\* in a second namespace as well
ListCells ==
  ({"builds"} \X ListKeys) \cup {<<"garage", <<Ascii.a, Ascii.b>>>>}

\* prefix: absent, '' (falsy), "a", "a_", "%"
PrefixInputs ==
  Opt({<<>>, <<Ascii.a>>, <<Ascii.a, Ascii.underscore>>, <<Ascii.percent>>})
\* limit: absent (100) or a page size
LimitInputs == Opt({1, 2})

\* base64 text is a sequence of alphabet indexes 0 .. 63, with 64 for '='
Base64Pad == 63 + 1

\* Buffer.from(key).toString('base64'); an ASCII key is its own UTF-8 bytes
RECURSIVE base64encode(_)
base64encode(b) ==
  IF Len(b) = 0 THEN <<>>
  ELSE IF Len(b) = 1
  THEN <<b[1] \div 4, (b[1] % 4) * 16, Base64Pad, Base64Pad>>
  ELSE IF Len(b) = 2
  THEN <<b[1] \div 4, (b[1] % 4) * 16 + b[2] \div 16, (b[2] % 16) * 4,
         Base64Pad>>
  ELSE <<b[1] \div 4, (b[1] % 4) * 16 + b[2] \div 16,
         (b[2] % 16) * 4 + b[3] \div 64, b[3] % 64>>
       \o base64encode(SubSeq(b, 4, Len(b)))

\* the sextets of a base64 text up to its first '='
RECURSIVE base64sextets(_)
base64sextets(text) ==
  IF text = <<>> \/ Head(text) = Base64Pad THEN <<>>
  ELSE <<Head(text)>> \o base64sextets(Tail(text))

\* the bytes of a sequence of sextets: 4 give 3 bytes, 3 give 2, 2 give 1
RECURSIVE base64bytes(_)
base64bytes(x) ==
  IF Len(x) < 2 THEN <<>>
  ELSE IF Len(x) = 2 THEN <<x[1] * 4 + x[2] \div 16>>
  ELSE IF Len(x) = 3
  THEN <<x[1] * 4 + x[2] \div 16, (x[2] % 16) * 16 + x[3] \div 4>>
  ELSE <<x[1] * 4 + x[2] \div 16, (x[2] % 16) * 16 + x[3] \div 4,
         (x[3] % 4) * 64 + x[4]>>
       \o base64bytes(SubSeq(x, 5, Len(x)))

\* Buffer.from(cursor, 'base64').toString('utf-8')
base64decode(text) == base64bytes(base64sextets(text))

\* cursors a caller may hold: none, or the encoding of a key
CursorInputs == Opt({base64encode(k) : k \in ListKeys})

\* const startKey = cursor ? decode(cursor) : ''
startKeyOf(cursor) ==
  IF cursor # None /\ cursor[1] # <<>> THEN base64decode(cursor[1]) ELSE <<>>

\* key < other in the BINARY collation of the key column
KeyLess(x, y) ==
  \E i \in 1 .. Len(y) :
    /\ \A j \in 1 .. i - 1 : j <= Len(x) /\ x[j] = y[j]
    /\ i > Len(x) \/ x[i] < y[i]

\* LIKE folds the case of ASCII letters
Fold(ch) == IF ch >= 65 /\ ch <= 90 THEN ch + 32 ELSE ch

\* text LIKE pattern: '%' matches any run of characters, '_' any one
RECURSIVE Like(_, _)
Like(text, pattern) ==
  IF pattern = <<>> THEN text = <<>>
  ELSE IF Head(pattern) = Ascii.percent
  THEN Like(text, Tail(pattern))
       \/ (text # <<>> /\ Like(Tail(text), pattern))
  ELSE /\ text # <<>>
       /\ Head(pattern) = Ascii.underscore
            \/ Fold(Head(pattern)) = Fold(Head(text))
       /\ Like(Tail(text), Tail(pattern))

\* ORDER BY key
RECURSIVE OrderByKey(_)
OrderByKey(S) ==
  IF S = {} THEN <<>>
  ELSE LET first == CHOOSE x \in S : \A y \in S \ {x} : KeyLess(x, y)
       IN <<first>> \o OrderByKey(S \ {first})

KeysOf(db, ns) == {k[2] : k \in {x \in DOMAIN db : x[1] = ns /\ db[x] # None}}

\* SELECT key FROM kv WHERE ns = ? [AND key LIKE ?] [AND key > ?]
\* ORDER BY key LIMIT ?
innerQuery(db, ns, prefix, startKey, count) ==
  LET rows == OrderByKey(
        {k \in KeysOf(db, ns) :
           /\ (prefix # None /\ prefix[1] # <<>>)
                => Like(k, prefix[1] \o <<Ascii.percent>>)
           /\ startKey # <<>> => KeyLess(startKey, k)})
  IN SubSeq(rows, 1, IF Len(rows) < count THEN Len(rows) ELSE count)

\* faulty variant: the expiry condition is missing from list
anyExpired_unchecked(db, ns, t) == FALSE

\* EXISTS (SELECT 1 FROM kv WHERE ns = ? AND key = kv.key AND expires_at IS
\* NOT NULL AND expires_at <= ?): key and kv.key are both the column of the
\* subquery's own kv, so the subquery asks for any expired row of ns
anyExpired(db, ns, t) ==
  \E k \in KeysOf(db, ns) : isExpired(db[K(ns, k)][1], t)

\* SELECT key FROM (inner query) WHERE NOT EXISTS (...)
outerQuery(db, ns, prefix, startKey, count, t) ==
  IF anyExpired(db, ns, t) THEN <<>>
  ELSE innerQuery(db, ns, prefix, startKey, count)

\* what list returns
listResult(db, ns, limit, cursor, prefix, t) ==
  LET lim == IF limit = None THEN 100 ELSE limit[1]
      rows == outerQuery(db, ns, prefix, startKeyOf(cursor), lim + 1, t)
      hasMore == Len(rows) > lim
      keys == IF hasMore THEN SubSeq(rows, 1, lim) ELSE rows
  IN [keys |-> keys,
      cursor |-> IF hasMore THEN Some(base64encode(keys[Len(keys)]))
                 ELSE None]

----------------------------------------------------------------------------
(* Outcomes and bookkeeping *)

\* note is history: "purged" when the operation's #cleanupExpired removed an
\* expired row, "after delete" when a set without cas directly follows a
\* delete of the same key that returned true, "over ttl" (kept only where
\* the history is on) when a set without cas replaced a stored row that had
\* an expiration
NoRet == [op |-> "none", c |-> "", ns |-> "", key |-> "", cas |-> None,
          err |-> "", out |-> None, note |-> ""]

Returned(op, c, ns, key, cas, out, note) ==
  [op |-> op, c |-> c, ns |-> ns, key |-> key, cas |-> cas, err |-> "",
   out |-> out, note |-> note]

\* throw new Error(`CAS failed: ${err} ...`)
Thrown(op, c, ns, key, cas, err, note) ==
  [op |-> op, c |-> c, ns |-> ns, key |-> key, cas |-> cas, err |-> err,
   out |-> None, note |-> note]

Purged(db) == IF db # store THEN "purged" ELSE ""

AfterDelete(ns, key) ==
  IF ret.op = "delete" /\ ret.ns = ns /\ ret.key = key /\ ret.out = Some(TRUE)
  THEN "after delete" ELSE ""

CasErrors == {"does not exist", "version mismatch",
              "concurrent update detected"}

\* obs.since is "clean" until someone writes the observed row ("written") or
\* the row is removed by delete or by a cleanup ("removed", which sticks);
\* obs.used says that the observer's set with cas = obs.version succeeded.
ObsOff == Some([c |-> "", ns |-> "", key |-> "", version |-> 0,
                since |-> "off", used |-> FALSE])

Observed(c, ns, key, result) ==
  Some([c |-> c, ns |-> ns, key |-> key,
        version |-> result[1].metadata.version,
        since |-> "clean", used |-> FALSE])

ObsOpen(ns, key) ==
  obs # None /\ obs[1].ns = ns /\ obs[1].key = key /\ ~obs[1].used

ObsAfter(ns, key, event) ==
  IF ObsOpen(ns, key)
  THEN IF event = "removed" \/ obs[1].since = "removed"
       THEN Some([obs[1] EXCEPT !.since = "removed"])
       ELSE Some([obs[1] EXCEPT !.since = event])
  ELSE obs

\* an operation of the observer other than get ends its observation
ObsEnd(c, o) == IF o # None /\ o[1].c = c /\ ~o[1].used THEN None ELSE o

\* the observer's own set with the version it read succeeded
ObsUse(c, ns, key, cas) ==
  IF ObsOpen(ns, key) /\ obs[1].c = c /\ obs[1].version = cas
  THEN Some([ObsOff[1] EXCEPT !.since = obs[1].since, !.used = TRUE])
  ELSE ObsEnd(c, ObsAfter(ns, key, "written"))

UpsertNote(ns, key) ==
  IF AfterDelete(ns, key) # "" THEN AfterDelete(ns, key)
  ELSE IF /\ obs # ObsOff
          /\ store[K(ns, key)] # None
          /\ store[K(ns, key)][1].expires_at # None
  THEN "over ttl" ELSE ""

\* better-sqlite3 refuses every statement once close() has run
NotOpen == "The database connection is not open"

Idle(c) == pend[c] = None

----------------------------------------------------------------------------
(* Operations *)

Init ==
  /\ store = [k \in Namespaces \X KeyNames |-> None]
  /\ now = 0
  /\ pend = [c \in Callers |-> None]
  /\ ret = NoRet
  /\ obs = ObsOff
  /\ open = TRUE
  /\ transports = <<>>

\* Date.now() moves on
Tick ==
  /\ now < MaxTicks * TickMs
  /\ now' = now + TickMs
  /\ UNCHANGED <<store, pend, ret, obs, open, transports>>

\* a call that reaches #db.prepare on a closed connection: prepare throws,
\* nothing is read or written
prepareThrows(c, op, ns, key, cas) ==
  /\ ret' = Thrown(op, c, ns, key, cas, NotOpen, "")
  /\ UNCHANGED <<store, obs>>

get(c, ns, key, options) ==
  /\ Idle(c)
  /\ IF ~open THEN prepareThrows(c, "get", ns, key, None)
     ELSE
     LET db == cleanupExpired(store, ns, key, now)
         result == getResult(store, ns, key, options, now)
     IN /\ store' = db
        /\ ret' = Returned("get", c, ns, key, None, result, Purged(db))
        /\ obs' = IF obs = ObsOff THEN obs
                  ELSE IF result # None THEN Observed(c, ns, key, result)
                  ELSE ObsEnd(c, IF db # store
                                 THEN ObsAfter(ns, key, "removed") ELSE obs)
  /\ UNCHANGED <<now, pend, open, transports>>

\* set up to the await of the CAS branch, or to its return without cas
set(c, ns, key, value, ttl, contentTypeOpt, cas) ==
  /\ Idle(c)
  /\ cas # None => cas[1] <= MaxVersion
  /\ LET contentType == contentTypeOf(contentTypeOpt)
         expiresAt == expiresAtOf(ttl, now)
         serialized == serialize(value, contentType)
     IN IF ~open /\ cas = None
        THEN prepareThrows(c, "set", ns, key, None) /\ pend' = pend
        ELSE IF ~open
        \* the awaited get rejects; set rethrows when it resumes
        THEN /\ pend' = [pend EXCEPT ![c] =
                     Some([ns |-> ns, key |-> key, value |-> value,
                           serialized |-> serialized,
                           contentType |-> contentType,
                           expiresAt |-> expiresAt,
                           now |-> now,
                           cas |-> cas[1],
                           note |-> NotOpen,
                           current |-> None])]
             /\ UNCHANGED <<store, ret, obs>>
        ELSE IF cas # None
        THEN LET db == cleanupExpired(store, ns, key, now)
                 current == getResult(store, ns, key, None, now)
             IN /\ store' = db
                /\ pend' = [pend EXCEPT ![c] =
                     Some([ns |-> ns, key |-> key, value |-> value,
                           serialized |-> serialized,
                           contentType |-> contentType,
                           expiresAt |-> expiresAt,
                           now |-> now,
                           cas |-> cas[1],
                           note |-> Purged(db),
                           \* of current, the continuation reads only
                           \* current === null and current.metadata.version
                           current |->
                             IF current = None THEN None
                             ELSE Some([metadata |-> [version |->
                                    current[1].metadata.version]])])]
                /\ ret' = ret
                /\ obs' = IF db # store THEN ObsAfter(ns, key, "removed")
                          ELSE obs
        ELSE /\ store[K(ns, key)] # None
                  => store[K(ns, key)][1].version < MaxVersion
             /\ store' = upsert(store, ns, key, serialized, contentType,
                                expiresAt, now)
             /\ pend' = pend
             /\ ret' = Returned("set", c, ns, key, None,
                                Some(store'[K(ns, key)][1].version),
                                UpsertNote(ns, key))
             /\ obs' = ObsEnd(c, ObsAfter(ns, key, "written"))
  /\ UNCHANGED <<now, open, transports>>

\* the CAS branch of set after `await this.get(ns, key)`
setAfterAwait(c) ==
  /\ pend[c] # None
  /\ LET f == pend[c][1]
     IN IF f.note = NotOpen
        THEN /\ ret' = Thrown("set", c, f.ns, f.key, Some(f.cas),
                              NotOpen, "")
             /\ store' = store
             /\ obs' = ObsEnd(c, obs)
        ELSE IF f.current = None
        THEN /\ ret' = Thrown("set", c, f.ns, f.key, Some(f.cas),
                              "does not exist", f.note)
             /\ store' = store
             /\ obs' = ObsEnd(c, obs)
        ELSE IF versionMismatch(f.current, f.cas)
        THEN /\ ret' = Thrown("set", c, f.ns, f.key, Some(f.cas),
                              "version mismatch", f.note)
             /\ store' = store
             /\ obs' = ObsEnd(c, obs)
        ELSE IF ~open
        THEN /\ ret' = Thrown("set", c, f.ns, f.key, Some(f.cas),
                              NotOpen, f.note)
             /\ store' = store
             /\ obs' = ObsEnd(c, obs)
        ELSE /\ store' = casUpdate(store, f.ns, f.key, f.serialized,
                                   f.contentType, f.expiresAt, f.now, f.cas)
             /\ IF casUpdateMatches(store, f.ns, f.key, f.cas)
                THEN /\ ret' = Returned("set", c, f.ns, f.key, Some(f.cas),
                                        Some(f.cas + 1), f.note)
                     /\ obs' = ObsUse(c, f.ns, f.key, f.cas)
                ELSE /\ ret' = Thrown("set", c, f.ns, f.key, Some(f.cas),
                                      "concurrent update detected", f.note)
                     /\ obs' = ObsEnd(c, obs)
  /\ pend' = [pend EXCEPT ![c] = None]
  /\ UNCHANGED <<now, open, transports>>

delete(c, ns, key) ==
  /\ Idle(c)
  /\ IF ~open THEN prepareThrows(c, "delete", ns, key, None)
     ELSE
     /\ store' = deleteRow(store, ns, key)
     /\ ret' = Returned("delete", c, ns, key, None, Some(store' # store), "")
     /\ obs' = ObsEnd(c, IF store' # store THEN ObsAfter(ns, key, "removed")
                         ELSE obs)
  /\ UNCHANGED <<now, pend, open, transports>>

\* the sweep as the program's own maintenance runs it: its effect on the
\* table, taken when it removes something (the returned count is dropped)
cleanupAllExpired ==
  /\ open
  /\ store' = deleteAllExpired(store, now)
  /\ store' # store
  /\ obs' = IF obs # None /\ obs[1].ns \in Namespaces
               /\ store'[K(obs[1].ns, obs[1].key)] = None
            THEN ObsAfter(obs[1].ns, obs[1].key, "removed") ELSE obs
  /\ UNCHANGED <<now, pend, ret, open, transports>>

Next ==
  \/ Tick
  \/ \E c \in Callers, ns \in Namespaces, key \in KeyNames,
        o \in GetInputs : get(c, ns, key, o)
  \/ \E c \in Callers, ns \in Namespaces, key \in KeyNames,
        ttl \in TtlInputs, cas \in CasInputs :
        set(c, ns, key, Payload(c).value, ttl, Payload(c).contentType, cas)
  \/ \E c \in Callers : setAfterAwait(c)
  \/ \E c \in Callers, ns \in Namespaces, key \in KeyNames :
        delete(c, ns, key)
  \/ cleanupAllExpired

Spec == Init /\ [][Next]_vars

\* the same program with the observation history switched on
InitObs ==
  /\ store = [k \in Namespaces \X KeyNames |-> None]
  /\ now = 0
  /\ pend = [c \in Callers |-> None]
  /\ ret = NoRet
  /\ obs = None
  /\ open = TRUE
  /\ transports = <<>>

\* a caller that supplies cas supplies the version its last get returned
ReadCas(c, ns, key) ==
  {None} \cup IF ObsOpen(ns, key) /\ obs[1].c = c
              THEN {Some(obs[1].version)} ELSE {}

NextObs ==
  \/ Tick
  \/ \E c \in Callers, ns \in Namespaces, key \in KeyNames,
        o \in GetInputs : get(c, ns, key, o)
  \/ \E c \in Callers, ns \in Namespaces, key \in KeyNames,
        ttl \in TtlInputs : \E cas \in ReadCas(c, ns, key) :
        set(c, ns, key, Payload(c).value, ttl, Payload(c).contentType, cas)
  \/ \E c \in Callers : setAfterAwait(c)
  \/ \E c \in Callers, ns \in Namespaces, key \in KeyNames :
        delete(c, ns, key)
  \/ cleanupAllExpired

SpecObs == InitObs /\ [][NextObs]_vars

\* the same store called with every kind of option: caller c1 reads with
\* and without a content type filter and writes with and without ttl and
\* cas; caller c2 writes entries of the other content type
NextOptions ==
  \/ Tick
  \/ \E ns \in Namespaces, key \in KeyNames, o \in GetOptions :
        get("c1", ns, key, o)
  \/ \E ns \in Namespaces, key \in KeyNames, ttl \in TtlOptions,
        cas \in CasInputs :
        set("c1", ns, key, Payload("c1").value, ttl,
            Payload("c1").contentType, cas)
  \/ \E ns \in Namespaces, key \in KeyNames, ttl \in TtlOptions :
        set("c2", ns, key, Payload("c2").value, ttl,
            Payload("c2").contentType, None)
  \/ \E c \in Callers : setAfterAwait(c)
  \/ \E ns \in Namespaces, key \in KeyNames : delete("c1", ns, key)
  \/ cleanupAllExpired

SpecOptions == InitObs /\ [][NextOptions]_vars

\* note is history: "expired stored" when the namespace held an expired row
\* at the call
list(c, ns, limit, cursor, prefix) ==
  /\ Idle(c)
  /\ IF ~open THEN prepareThrows(c, "list", ns, "", None)
     ELSE
     /\ ret' = Returned("list", c, ns, "", None,
                     Some(listResult(store, ns, limit, cursor, prefix, now)),
                     IF anyExpired(store, ns, now) THEN "expired stored"
                     ELSE "")
     /\ UNCHANGED <<store, obs>>
  /\ UNCHANGED <<now, pend, open, transports>>

\* #db.close(): closing a closed connection is accepted and changes nothing
dbClose_staysOpen(isOpen) == isOpen

dbClose(isOpen) == FALSE

close(c) ==
  /\ Idle(c)
  /\ open' = dbClose(open)
  /\ ret' = Returned("close", c, "", "", None, None, "")
  /\ UNCHANGED <<store, now, pend, obs, transports>>

\* try { SELECT 1; return true } catch { return false }
healthcheckResult_assumesOpen(isOpen) == TRUE

healthcheckResult(isOpen) == isOpen

healthcheck(c) ==
  /\ Idle(c)
  /\ ret' = Returned("healthcheck", c, "", "", None,
                     Some(healthcheckResult(open)), "")
  /\ UNCHANGED <<store, now, pend, obs, open, transports>>

\* the store with several keys and two namespaces: one caller creates the
\* entries at time 0, with or without a ttl; then time passes, entries are
\* deleted, expired rows are swept, and the namespaces are listed
InitList ==
  /\ store = [k \in ListCells |-> None]
  /\ now = 0
  /\ pend = [c \in Callers |-> None]
  /\ ret = NoRet
  /\ obs = ObsOff
  /\ open = TRUE
  /\ transports = <<>>

NextList ==
  \/ Tick
  \/ \E k \in ListCells, ttl \in Opt({1}) :
        /\ now = 0 /\ store[k] = None
        /\ set("c1", k[1], k[2], Payload("c1").value, ttl,
               Payload("c1").contentType, None)
  \/ \E k \in ListCells : delete("c1", k[1], k[2])
  \/ cleanupAllExpired
  \/ \E ns \in ListNamespaces, limit \in LimitInputs,
        cursor \in CursorInputs, prefix \in PrefixInputs :
        list("c1", ns, limit, cursor, prefix)

SpecList == InitList /\ [][NextList]_vars

\* the store with the keys '', "%" and "a:", listed page by page with the
\* cursors the caller may pass: none, the empty string, the encoding of a
\* key, or a text that is not an encoding
CursorKeys == {<<>>, <<Ascii.percent>>, <<Ascii.a, Ascii.colon>>}
CursorCells == {"builds"} \X CursorKeys

\* one base64 character alone ("J", "Y"): Buffer.from decodes it to no byte
UndecodableCursors ==
  {SubSeq(base64encode(k), 1, 1) : k \in CursorKeys \ {<<>>}}

CursorTokens ==
  Opt({base64encode(k) : k \in CursorKeys} \cup UndecodableCursors)

InitCursor ==
  /\ store = [k \in CursorCells |-> None]
  /\ now = 0
  /\ pend = [c \in Callers |-> None]
  /\ ret = NoRet
  /\ obs = ObsOff
  /\ open = TRUE
  /\ transports = <<>>

NextCursor ==
  \/ Tick
  \/ \E k \in CursorCells, ttl \in Opt({1}) :
        /\ now = 0 /\ store[k] = None
        /\ set("c1", k[1], k[2], Payload("c1").value, ttl,
               Payload("c1").contentType, None)
  \/ \E k \in CursorCells : delete("c1", k[1], k[2])
  \/ cleanupAllExpired
  \/ \E limit \in LimitInputs, cursor \in CursorTokens :
        list("c1", "builds", limit, cursor, None)

SpecCursor == InitCursor /\ [][NextCursor]_vars

\* info.changes of a DELETE: the number of rows it removed
changes(db, after) ==
  Cardinality({k \in DOMAIN db : db[k] # None /\ after[k] = None})

\* cleanupAllExpired called by a caller that keeps the count it returns
\* (the function is synchronous)
cleanupAllExpiredCall(c) ==
  /\ Idle(c)
  /\ IF ~open THEN prepareThrows(c, "cleanupAllExpired", "", "", None)
     ELSE
     /\ store' = deleteAllExpired(store, now)
     /\ ret' = Returned("cleanupAllExpired", c, "", "", None,
                        Some(changes(store, store')), "")
     /\ obs' = obs
  /\ UNCHANGED <<now, pend, open, transports>>

\* the store with several keys and two namespaces under reads and
\* maintenance: entries are created at time 0 with or without a ttl, read
\* (which removes an expired row of the key read), deleted, listed without
\* options, and swept by a caller
NextMaintenance ==
  \/ Tick
  \/ \E k \in ListCells, ttl \in Opt({1}) :
        /\ now = 0 /\ store[k] = None
        /\ set("c1", k[1], k[2], Payload("c1").value, ttl,
               Payload("c1").contentType, None)
  \/ \E k \in ListCells : get("c1", k[1], k[2], None)
  \/ \E k \in ListCells : delete("c1", k[1], k[2])
  \/ \E ns \in ListNamespaces : list("c1", ns, None, None, None)
  \/ cleanupAllExpiredCall("c1")

SpecMaintenance == InitList /\ [][NextMaintenance]_vars

\* the life of one connection: the callers of Spec read, write (with and
\* without cas), delete, list, sweep and probe one key, and at any moment a
\* caller may close the connection, also while a set is suspended
NextLifecycle ==
  \/ Tick
  \/ \E c \in Callers, ns \in Namespaces, key \in KeyNames :
        get(c, ns, key, None)
  \/ \E ns \in Namespaces, key \in KeyNames, ttl \in TtlInputs,
        cas \in Opt({1}) :
        set("c1", ns, key, Payload("c1").value, ttl,
            Payload("c1").contentType, cas)
  \/ \E c \in Callers : setAfterAwait(c)
  \/ \E ns \in Namespaces, key \in KeyNames : delete("c2", ns, key)
  \/ \E ns \in Namespaces : list("c2", ns, None, None, None)
  \/ cleanupAllExpiredCall("c2")
  \/ \E c \in Callers : healthcheck(c)
  \/ \E c \in Callers : close(c)

SpecLifecycle == Init /\ [][NextLifecycle]_vars

----------------------------------------------------------------------------
(* KVHelpers *)

\* the options object a caller hands to setJSON; its type leaves contentType
\* out, a caller that ignores the type may still pass one
HelperOptions ==
  [ttl : Opt({1}), cas : Opt({1}), contentType : Opt({"text/plain"})]

\* faulty variant: the caller's options are not passed on
setJSONOptions_dropsOptions(options) ==
  [ttl |-> None, cas |-> None, contentType |-> Some(JSON)]

\* { ...options, contentType: "application/json" }
setJSONOptions(options) == [options EXCEPT !.contentType = Some(JSON)]

getJSON(c, ns, key) == get(c, ns, key, Some(JSON))

setJSON(c, ns, key, value, options) ==
  LET o == setJSONOptions(options)
  IN set(c, ns, key, value, o.ttl, o.contentType, o.cas)

\* caller c1 uses the store through the helpers only, caller c2 writes
\* entries of another content type and deletes
NextHelpers ==
  \/ Tick
  \/ \E ns \in Namespaces, key \in KeyNames : getJSON("c1", ns, key)
  \/ \E ns \in Namespaces, key \in KeyNames, options \in HelperOptions :
        setJSON("c1", ns, key, Payload("c1").value, options)
  \/ \E ns \in Namespaces, key \in KeyNames, ttl \in TtlInputs :
        set("c2", ns, key, Payload("c2").value, ttl,
            Payload("c2").contentType, None)
  \/ \E c \in Callers : setAfterAwait(c)
  \/ \E ns \in Namespaces, key \in KeyNames : delete("c2", ns, key)

SpecHelpers == Init /\ [][NextHelpers]_vars

----------------------------------------------------------------------------
(* The build tools (tools/builds.ts) over the store *)

BUILDS_NAMESPACE == "builds"
\* 'active'
ACTIVE_BUILD_KEY == <<97, 99, 116, 105, 118, 101>>

\* `${userId}:${buildId}`
buildKey(userId, buildId) == userId \o <<Ascii.colon>> \o buildId

\* the user "u", whose tool calls c1 and c2 may run at the same time
UserIds == {<<Ascii.u>>}
\* build ids passed to loadBuild and deleteBuild: 'active' and "a"
BuildIds == {ACTIVE_BUILD_KEY, <<Ascii.a>>}
\* names passed to saveBuild: "A"
BuildNames == {<<Ascii.A>>}
BuildCells ==
  {BUILDS_NAMESPACE} \X {buildKey(u, b) : u \in UserIds, b \in BuildIds}

\* the fields of a car configuration and of an update that the model keeps
NoUpdates == [color |-> None, wheels |-> None]
CarUpdates == {[color |-> Some("blue"), wheels |-> None]}

createDefaultCarConfig == [color |-> "red", wheels |-> "stock"]
createDefaultDriverProfile == [persona |-> "CoolCalmCollected"]

\* createBuild(id) at time t
createBuild(id, t) ==
  [id |-> id, name |-> None, car |-> createDefaultCarConfig,
   driver |-> createDefaultDriverProfile, createdAt |-> t, updatedAt |-> t]

\* { ...build.car, ...validatedUpdates }
applyUpdates(car, updates) ==
  [f \in DOMAIN car |-> IF updates[f] # None THEN updates[f][1] ELSE car[f]]

\* name.toLowerCase()
toLowerCase(text) == [i \in 1 .. Len(text) |-> Fold(text[i])]

IsAlnum(ch) ==
  \/ ch >= Ascii.a /\ ch <= Ascii.z
  \/ ch >= Ascii.zero /\ ch <= Ascii.nine

\* .replace(/[^a-z0-9]+/g, '_')
RECURSIVE squeeze(_, _)
squeeze(text, inRun) ==
  IF text = <<>> THEN <<>>
  ELSE IF IsAlnum(Head(text)) THEN <<Head(text)>> \o squeeze(Tail(text), FALSE)
  ELSE IF inRun THEN squeeze(Tail(text), TRUE)
  ELSE <<Ascii.underscore>> \o squeeze(Tail(text), TRUE)

\* .replace(/^_+|_+$/g, '')
RECURSIVE trimUnderscores(_)
trimUnderscores(text) ==
  IF text = <<>> THEN <<>>
  ELSE IF Head(text) = Ascii.underscore THEN trimUnderscores(Tail(text))
  ELSE IF text[Len(text)] = Ascii.underscore
  THEN trimUnderscores(SubSeq(text, 1, Len(text) - 1))
  ELSE text

sanitizeBuildId(name) ==
  LET id == trimUnderscores(squeeze(toLowerCase(name), FALSE))
  IN SubSeq(id, 1, IF Len(id) < 50 THEN Len(id) ELSE 50)

\* KVHelpers.getJSON(kv, BUILDS_NAMESPACE, key): what it returns
readJSON(db, key, t) == getResult(db, BUILDS_NAMESPACE, key, Some(JSON), t)

\* KVHelpers.setJSON(kv, BUILDS_NAMESPACE, key, build): the table it leaves
\* (the value handed to the store is the one-element sequence <<build>>)
putJSON(db, key, build, t) ==
  upsert(db, BUILDS_NAMESPACE, key, serialize(<<build>>, JSON), JSON,
         expiresAtOf(None, t), t)

\* result.value
BuildOf(result) == result[1].value[1]

\* the frame of a tool call suspended at an await: pc names the await,
\* result is what the awaited getJSON returned, build the local `build`
Frame(tool, pc, userId, buildId, name, updates, result, build) ==
  [tool |-> tool, pc |-> pc, userId |-> userId, buildId |-> buildId,
   name |-> name, updates |-> updates, result |-> result, build |-> build]

\* the rows the tools may still write (bounds the versions)
CanWrite(key) ==
  store[K(BUILDS_NAMESPACE, key)] # None
    => store[K(BUILDS_NAMESPACE, key)][1].version < MaxWrites

\* a tool calls KVHelpers.getJSON and awaits it: the get runs at once, the
\* tool goes on in a later step
awaitGetJSON(c, frame, key) ==
  /\ IF ~open
     THEN /\ ret' = Thrown(frame.tool, c, BUILDS_NAMESPACE, key, None,
                           NotOpen, "")
          /\ UNCHANGED <<store, pend>>
     ELSE /\ store' = cleanupExpired(store, BUILDS_NAMESPACE, key, now)
          /\ pend' = [pend EXCEPT ![c] =
               Some([frame EXCEPT !.result = readJSON(store, key, now)])]
          /\ ret' = ret
  /\ UNCHANGED <<now, obs, open, transports>>

\* a tool calls KVHelpers.setJSON with the build and returns it
setJSONAndReturn(c, tool, key, build) ==
  /\ CanWrite(key)
  /\ IF ~open
     THEN /\ ret' = Thrown(tool, c, BUILDS_NAMESPACE, key, None, NotOpen, "")
          /\ store' = store
     ELSE /\ store' = putJSON(store, key, build, now)
          /\ ret' = Returned(tool, c, BUILDS_NAMESPACE, key, None,
                             Some(build), "")
  /\ pend' = [pend EXCEPT ![c] = None]
  /\ UNCHANGED <<now, obs, open, transports>>

\* a tool throws
toolThrows(c, tool, key, err) ==
  /\ ret' = Thrown(tool, c, BUILDS_NAMESPACE, key, None, err, "")
  /\ pend' = [pend EXCEPT ![c] = None]
  /\ UNCHANGED <<store, now, obs, open, transports>>

At(c, tools, pc) ==
  pend[c] # None /\ pend[c][1].tool \in tools /\ pend[c][1].pc = pc

\* getCurrentBuild to its await, called as a tool or by updateCarConfig
\* and saveBuild
callGetCurrentBuild(c, tool, userId, name, updates) ==
  /\ Idle(c)
  /\ awaitGetJSON(c, Frame(tool, "getCurrentBuild", userId, <<>>, name,
                           updates, None, None),
                  buildKey(userId, ACTIVE_BUILD_KEY))

getCurrentBuild(c, userId) ==
  callGetCurrentBuild(c, "getCurrentBuild", userId, <<>>, NoUpdates)

\* getCurrentBuild after its await: return the stored build, or create the
\* default build, store it and return it
getCurrentBuildResumes(c) ==
  /\ At(c, {"getCurrentBuild", "updateCarConfig", "updateDriverProfile",
           "saveBuild"}, "getCurrentBuild")
  /\ LET f == pend[c][1]
         key == buildKey(f.userId, ACTIVE_BUILD_KEY)
         newBuild == createBuild(ACTIVE_BUILD_KEY, now)
         build == IF f.result # None THEN BuildOf(f.result) ELSE newBuild
     IN /\ f.result = None => CanWrite(key)
        /\ IF f.result = None /\ ~open
           THEN /\ ret' = Thrown(f.tool, c, BUILDS_NAMESPACE, key, None,
                                 NotOpen, "")
                /\ pend' = [pend EXCEPT ![c] = None]
                /\ store' = store
           ELSE /\ store' = IF f.result # None THEN store
                            ELSE putJSON(store, key, newBuild, now)
                /\ IF f.tool = "getCurrentBuild"
                   THEN /\ ret' = Returned(f.tool, c, BUILDS_NAMESPACE, key,
                                           None, Some(build), "")
                        /\ pend' = [pend EXCEPT ![c] = None]
                   ELSE /\ ret' = ret
                        /\ pend' = [pend EXCEPT ![c] =
                             Some([f EXCEPT !.pc = f.tool,
                                            !.build = Some(build)])]
  /\ UNCHANGED <<now, obs, open, transports>>

updateCarConfig(c, userId, updates) ==
  callGetCurrentBuild(c, "updateCarConfig", userId, <<>>, updates)

\* updateCarConfig after `await getCurrentBuild`
updateCarConfigResumes(c) ==
  /\ At(c, {"updateCarConfig"}, "updateCarConfig")
  /\ LET f == pend[c][1]
         build == [f.build[1] EXCEPT !.car = applyUpdates(@, f.updates),
                                     !.updatedAt = now]
     IN setJSONAndReturn(c, f.tool, buildKey(f.userId, ACTIVE_BUILD_KEY),
                         build)

\* updates of the other fields of the build: the wheels, the persona
WheelUpdates == {[color |-> None, wheels |-> Some("sport")]}
DriverUpdates == {[persona |-> Some("SpeedDemon")]}

updateDriverProfile(c, userId, updates) ==
  callGetCurrentBuild(c, "updateDriverProfile", userId, <<>>, updates)

\* updateDriverProfile after `await getCurrentBuild`
updateDriverProfileResumes(c) ==
  /\ At(c, {"updateDriverProfile"}, "updateDriverProfile")
  /\ LET f == pend[c][1]
         build == [f.build[1] EXCEPT !.driver = applyUpdates(@, f.updates),
                                     !.updatedAt = now]
     IN setJSONAndReturn(c, f.tool, buildKey(f.userId, ACTIVE_BUILD_KEY),
                         build)

saveBuild(c, userId, name) ==
  callGetCurrentBuild(c, "saveBuild", userId, name, NoUpdates)

\* saveBuild after `await getCurrentBuild`: look for a build of that name
saveBuildLooksUp(c) ==
  /\ At(c, {"saveBuild"}, "saveBuild")
  /\ LET f == pend[c][1]
     IN awaitGetJSON(c, [f EXCEPT !.pc = "existing",
                                  !.buildId = sanitizeBuildId(f.name)],
                     buildKey(f.userId, sanitizeBuildId(f.name)))

\* saveBuild after `await getJSON(existingKey)`
saveBuildResumes(c) ==
  /\ At(c, {"saveBuild"}, "existing")
  /\ LET f == pend[c][1]
         existingKey == buildKey(f.userId, f.buildId)
         savedBuild == [f.build[1] EXCEPT !.id = f.buildId,
                                          !.name = Some(f.name),
                                          !.updatedAt = now]
     IN IF f.result # None
        THEN toolThrows(c, f.tool, existingKey, "already exists")
        ELSE setJSONAndReturn(c, f.tool, existingKey, savedBuild)

loadBuild(c, userId, buildId) ==
  /\ Idle(c)
  /\ awaitGetJSON(c, Frame("loadBuild", "loadBuild", userId, buildId, <<>>,
                           NoUpdates, None, None),
                  buildKey(userId, buildId))

\* faulty variant: the copy keeps the id of the saved build
activeBuildOf_keepsId(build, t) == [build EXCEPT !.updatedAt = t]

\* { ...build, id: ACTIVE_BUILD_KEY, updatedAt: Date.now() }
activeBuildOf(build, t) ==
  [build EXCEPT !.id = ACTIVE_BUILD_KEY, !.updatedAt = t]

\* canAccessBuild(identity, identity.userId)
canAccessBuild(userId, buildUserId) == userId = buildUserId

\* loadBuild after `await getJSON(key)`
loadBuildResumes(c) ==
  /\ At(c, {"loadBuild"}, "loadBuild")
  /\ LET f == pend[c][1]
         activeBuild == activeBuildOf(BuildOf(f.result), now)
     IN IF f.result = None
        THEN toolThrows(c, f.tool, buildKey(f.userId, f.buildId), "not found")
        ELSE IF ~canAccessBuild(f.userId, f.userId)
        THEN toolThrows(c, f.tool, buildKey(f.userId, f.buildId),
                        "Access denied")
        ELSE setJSONAndReturn(c, f.tool,
                              buildKey(f.userId, ACTIVE_BUILD_KEY),
                              activeBuild)

\* faulty variant: no build id is refused
isActiveBuild_never(buildId) == FALSE

\* buildId === ACTIVE_BUILD_KEY
isActiveBuild(buildId) == buildId = ACTIVE_BUILD_KEY

deleteBuild(c, userId, buildId) ==
  /\ Idle(c)
  /\ IF isActiveBuild(buildId)
     THEN /\ ret' = Thrown("deleteBuild", c, BUILDS_NAMESPACE,
                           buildKey(userId, buildId), None,
                           "Cannot delete the active build", "")
          /\ store' = store
     ELSE IF ~open
     THEN /\ ret' = Thrown("deleteBuild", c, BUILDS_NAMESPACE,
                           buildKey(userId, buildId), None, NotOpen, "")
          /\ store' = store
     ELSE /\ store' = deleteRow(store, BUILDS_NAMESPACE,
                                buildKey(userId, buildId))
          /\ ret' = Returned("deleteBuild", c, BUILDS_NAMESPACE,
                             buildKey(userId, buildId), None,
                             Some(store' # store), "")
  /\ UNCHANGED <<now, pend, obs, open, transports>>

InitBuilds ==
  /\ store = [k \in BuildCells |-> None]
  /\ now = 0
  /\ pend = [c \in Callers |-> None]
  /\ ret = NoRet
  /\ obs = ObsOff
  /\ open = TRUE
  /\ transports = <<>>

\* one user's tool calls: call c1 is any tool, and a second call c2, which
\* may run while c1 is suspended, loads or deletes a build
NextBuilds ==
  \/ Tick
  \/ \E u \in UserIds : getCurrentBuild("c1", u)
  \/ \E u \in UserIds, updates \in CarUpdates :
        updateCarConfig("c1", u, updates)
  \/ \E u \in UserIds, name \in BuildNames : saveBuild("c1", u, name)
  \/ \E c \in Callers, u \in UserIds, b \in BuildIds : loadBuild(c, u, b)
  \/ \E c \in Callers, u \in UserIds, b \in BuildIds :
        deleteBuild(c, u, b)
  \/ \E c \in Callers : getCurrentBuildResumes(c)
  \/ \E c \in Callers : updateCarConfigResumes(c)
  \/ \E c \in Callers : saveBuildLooksUp(c)
  \/ \E c \in Callers : saveBuildResumes(c)
  \/ \E c \in Callers : loadBuildResumes(c)

SpecBuilds == InitBuilds /\ [][NextBuilds]_vars

\* two saveBuild calls of one user in flight together
NextSaves ==
  \/ Tick
  \/ \E c \in Callers, u \in UserIds, name \in BuildNames :
        saveBuild(c, u, name)
  \/ \E c \in Callers : getCurrentBuildResumes(c)
  \/ \E c \in Callers : saveBuildLooksUp(c)
  \/ \E c \in Callers : saveBuildResumes(c)

SpecSaves == InitBuilds /\ [][NextSaves]_vars

\* two updates of one user's active build in flight together
NextUpdates ==
  \/ Tick
  \/ \E u \in UserIds, updates \in CarUpdates :
        updateCarConfig("c1", u, updates)
  \/ \E u \in UserIds, updates \in WheelUpdates :
        updateCarConfig("c2", u, updates)
  \/ \E u \in UserIds, updates \in DriverUpdates :
        updateDriverProfile("c2", u, updates)
  \/ \E c \in Callers : getCurrentBuildResumes(c)
  \/ \E c \in Callers : updateCarConfigResumes(c)
  \/ \E c \in Callers : updateDriverProfileResumes(c)

SpecUpdates == InitBuilds /\ [][NextUpdates]_vars

----------------------------------------------------------------------------
(* listBuilds, getBuildDetails and the builds of several users *)

\* fullKey.substring(start)
substring(text, start) == SubSeq(text, start + 1, Len(text))

\* { id, name, createdAt, updatedAt } of a build
BuildMetadata(build) ==
  [id |-> build.id, name |-> build.name, createdAt |-> build.createdAt,
   updatedAt |-> build.updatedAt]

\* calculatePerformanceScore(car); the stats, the body kit and the spoiler
\* of the model's cars are the defaults (50 each, no bonus)
wheelBonus == [stock |-> 0, sport |-> 3]
calculatePerformanceScore(car) ==
  LET score == (50 + 50 + 50 + 50) \div 4 + wheelBonus[car.wheels]
  IN IF score > 100 THEN 100 ELSE score

\* listBuilds to its await: kv.list with the prefix `${userId}:` and the
\* default limit
listBuilds(c, userId) ==
  /\ Idle(c)
  /\ LET prefix == userId \o <<Ascii.colon>>
         result == listResult(store, BUILDS_NAMESPACE, Some(50), None,
                              Some(prefix), now)
     IN IF ~open
        THEN /\ ret' = Thrown("listBuilds", c, BUILDS_NAMESPACE, prefix, None,
                              NotOpen, "")
             /\ pend' = pend
        ELSE /\ pend' = [pend EXCEPT ![c] =
                  Some(Frame("listBuilds", "loop", userId, <<>>, <<>>,
                             NoUpdates,
                             Some([keys |-> result.keys,
                                   cursor |-> result.cursor,
                                   builds |-> <<>>]),
                             None))]
             /\ ret' = ret
  /\ UNCHANGED <<store, now, obs, open, transports>>

\* one round of the loop of listBuilds over result.keys, or its return
listBuildsLoop(c) ==
  /\ At(c, {"listBuilds"}, "loop")
  /\ LET f == pend[c][1]
         r == f.result[1]
         prefix == f.userId \o <<Ascii.colon>>
         fullKey == Head(r.keys)
         buildId == substring(fullKey, Len(prefix))
         buildResult == readJSON(store, fullKey, now)
         rest == [r EXCEPT !.keys = Tail(r.keys)]
     IN IF r.keys = <<>>
        THEN /\ ret' = Returned("listBuilds", c, BUILDS_NAMESPACE, prefix,
                                None,
                                Some([builds |-> r.builds,
                                      cursor |-> r.cursor]), "")
             /\ pend' = [pend EXCEPT ![c] = None]
             /\ store' = store
        ELSE IF buildId = ACTIVE_BUILD_KEY
        THEN /\ pend' = [pend EXCEPT ![c] =
                  Some([f EXCEPT !.result = Some(rest)])]
             /\ UNCHANGED <<store, ret>>
        ELSE IF ~open
        THEN /\ ret' = Thrown("listBuilds", c, BUILDS_NAMESPACE, fullKey,
                              None, NotOpen, "")
             /\ pend' = [pend EXCEPT ![c] = None]
             /\ store' = store
        ELSE /\ store' = cleanupExpired(store, BUILDS_NAMESPACE, fullKey, now)
             /\ pend' = [pend EXCEPT ![c] =
                  Some([f EXCEPT !.result = Some(
                     IF buildResult = None THEN rest
                     ELSE [rest EXCEPT !.builds =
                             Append(@, BuildMetadata(BuildOf(buildResult)))])])]
             /\ ret' = ret
  /\ UNCHANGED <<now, obs, open, transports>>

getBuildDetails(c, userId, buildId) ==
  /\ Idle(c)
  /\ awaitGetJSON(c, Frame("getBuildDetails", "getBuildDetails", userId,
                           buildId, <<>>, NoUpdates, None, None),
                  buildKey(userId, buildId))

\* getBuildDetails after `await getJSON(key)`
getBuildDetailsResumes(c) ==
  /\ At(c, {"getBuildDetails"}, "getBuildDetails")
  /\ LET f == pend[c][1]
         key == buildKey(f.userId, f.buildId)
     IN IF f.result = None /\ f.buildId # ACTIVE_BUILD_KEY
        THEN toolThrows(c, f.tool, key, "not found")
        ELSE /\ ret' = Returned(f.tool, c, BUILDS_NAMESPACE, key, None,
                  Some(IF f.result = None
                       THEN [build |-> createBuild(ACTIVE_BUILD_KEY, now),
                             performanceScore |-> 50]
                       ELSE [build |-> BuildOf(f.result),
                             performanceScore |->
                               calculatePerformanceScore(
                                 BuildOf(f.result).car)]), "")
             /\ pend' = [pend EXCEPT ![c] = None]
             /\ UNCHANGED <<store, now, obs, open, transports>>

\* three sanitized user ids: "_", "_:a" and "u"
Visitor == <<Ascii.underscore>>
Owners == {<<Ascii.underscore, Ascii.colon, Ascii.a>>, <<Ascii.u>>}

\* the build ids a saveBuild of the model produces, and 'active'
OwnBuildIds == {ACTIVE_BUILD_KEY} \cup {sanitizeBuildId(n) : n \in BuildNames}

\* the buildId arguments of the visitor's calls: "a", "a:a", "a:active"
BuildIdInputs ==
  {<<Ascii.a>>} \cup {<<Ascii.a, Ascii.colon>> \o b : b \in OwnBuildIds}

\* the keys `${userId}:${buildId}` of a user's builds
KeysOfUser(userId) ==
  {K(BUILDS_NAMESPACE, buildKey(userId, b)) : b \in OwnBuildIds}

IsolationCells ==
  UNION {KeysOfUser(userId) : userId \in {Visitor} \cup Owners}

InitIsolation ==
  /\ store = [k \in IsolationCells |-> None]
  /\ now = 0
  /\ pend = [c \in Callers |-> None]
  /\ ret = NoRet
  /\ obs = ObsOff
  /\ open = TRUE
  /\ transports = <<>>

\* the calls of the visitor are c1, those of the owners c2
NextIsolation ==
  \/ \E userId \in Owners, name \in BuildNames : saveBuild("c2", userId, name)
  \/ listBuilds("c1", Visitor)
  \/ \E b \in BuildIdInputs : getBuildDetails("c1", Visitor, b)
  \/ \E b \in BuildIdInputs : loadBuild("c1", Visitor, b)
  \/ \E b \in BuildIdInputs : deleteBuild("c1", Visitor, b)
  \/ \E c \in Callers : getCurrentBuildResumes(c)
  \/ \E c \in Callers : saveBuildLooksUp(c)
  \/ \E c \in Callers : saveBuildResumes(c)
  \/ \E c \in Callers : listBuildsLoop(c)
  \/ \E c \in Callers : getBuildDetailsResumes(c)
  \/ \E c \in Callers : loadBuildResumes(c)

SpecIsolation == InitIsolation /\ [][NextIsolation]_vars

----------------------------------------------------------------------------
(* createTextResult (lib/utils.ts) *)

\* JavaScript values: t is the kind, s the text of a number or string,
\* items the elements of an array or the properties of an object in
\* insertion order (k is the property name, "" in an array)
Value(t, text, items) == [t |-> t, s |-> text, items |-> items]
Undefined == Value("undefined", "", <<>>)
Null == Value("null", "", <<>>)
Item(k, v) == [k |-> k, v |-> v]

\* the values handed to createTextResult: undefined, null, true, a number,
\* a string, the empty array and object, arrays of these, and objects with
\* the properties a and b (either may be missing, or undefined)
Atoms ==
  {Undefined, Null, Value("boolean", "true", <<>>), Value("number", "7", <<>>),
   Value("string", "Hello world", <<>>), Value("array", "", <<>>),
   Value("object", "", <<>>)}

RECURSIVE SeqsUpTo(_, _)
SeqsUpTo(S, n) ==
  IF n = 0 THEN {<<>>}
  ELSE LET shorter == SeqsUpTo(S, n - 1)
       IN shorter \cup {Append(q, x) : q \in shorter, x \in S}

Arrays ==
  {Value("array", "", [i \in 1 .. Len(q) |-> Item("", q[i])]) :
     q \in SeqsUpTo(Atoms, MaxItems)}

Objects ==
  {Value("object", "", pa \o pb) :
     pa \in {<<>>} \cup {<<Item("a", v)>> : v \in Atoms},
     pb \in {<<>>} \cup {<<Item("b", v)>> : v \in Atoms}}

TextInputs == Atoms \cup Arrays \cup Objects

\* level indentations of two spaces
Indentation(level) == [i \in 1 .. level |-> "  "]

\* the properties JSON.stringify writes: those whose value is not undefined
RECURSIVE Defined(_)
Defined(items) ==
  IF items = <<>> THEN <<>>
  ELSE IF Head(items).v.t = "undefined" THEN Defined(Tail(items))
  ELSE <<Head(items)>> \o Defined(Tail(items))

\* JSON.stringify(value, null, 2) of a value other than undefined, as a
\* sequence of pieces of text; an undefined array element is written null
RECURSIVE stringify(_, _)
RECURSIVE stringifyItems(_, _, _)
stringifyItems(items, level, named) ==
  LET item == Head(items)
      text == Indentation(level)
              \o (IF named THEN <<"\"", item.k, "\"", ": ">> ELSE <<>>)
              \o (IF item.v.t = "undefined" THEN <<"null">>
                  ELSE stringify(item.v, level))
  IN IF Len(items) = 1 THEN text
     ELSE text \o <<",", "\n">> \o stringifyItems(Tail(items), level, named)

stringify(value, level) ==
  IF value.t = "null" THEN <<"null">>
  ELSE IF value.t \in {"boolean", "number"} THEN <<value.s>>
  ELSE IF value.t = "string" THEN <<"\"", value.s, "\"">>
  ELSE IF value.t = "array"
  THEN IF value.items = <<>> THEN <<"[]">>
       ELSE <<"[", "\n">> \o stringifyItems(value.items, level + 1, FALSE)
            \o <<"\n">> \o Indentation(level) \o <<"]">>
  ELSE IF Defined(value.items) = <<>> THEN <<"{}">>
       ELSE <<"{", "\n">>
            \o stringifyItems(Defined(value.items), level + 1, TRUE)
            \o <<"\n">> \o Indentation(level) \o <<"}">>

\* JSON.stringify(data, null, 2): undefined has no JSON text, the call
\* returns undefined
JSONstringifyIndented(data) ==
  IF data.t = "undefined" THEN None ELSE Some(stringify(data, 0))

\* faulty variant: undefined is passed on as it is
safeData_unhandled(data) == data

\* data === undefined ? null : data
safeData(data) == IF data = Undefined THEN Null ELSE data

createTextResultOf(data) ==
  [content |-> <<[type |-> "text",
                  text |-> JSONstringifyIndented(safeData(data))]>>]

\* a call of createTextResult; the record of the call keeps the argument
createTextResult(data) ==
  /\ ret' = [Returned("createTextResult", "", "", "", None,
                      Some(createTextResultOf(data)), "")
               EXCEPT !.key = data]
  /\ UNCHANGED <<store, now, pend, obs, open, transports>>

NextText == \E data \in TextInputs : createTextResult(data)

SpecText == Init /\ [][NextText]_vars

----------------------------------------------------------------------------
(* HTTP sessions (index.ts, auth/pomerium.ts) *)

\* the x-pomerium-claim-sub header that the requests of each client carry
HeaderSub == [c1 |-> <<Ascii.u>>, c2 |-> <<Ascii.Z>>]

\* .replace(/[\x00-\x1F\x7F]/g, "")
removeControls(text) == SelectSeq(text, LAMBDA ch : ch >= 32 /\ ch # 127)

\* .trim()
RECURSIVE trimStart(_)
trimStart(text) ==
  IF text # <<>> /\ Head(text) = 32 THEN trimStart(Tail(text)) ELSE text

RECURSIVE trimEnd(_)
trimEnd(text) ==
  IF text # <<>> /\ text[Len(text)] = 32
  THEN trimEnd(SubSeq(text, 1, Len(text) - 1)) ELSE text

sanitizeUserId(userId) == toLowerCase(trimEnd(trimStart(removeControls(userId))))

\* resolveIdentity(req).userId of a request with the header
resolveIdentity(sub) == sanitizeUserId(sub)

SessionUsers == {resolveIdentity(HeaderSub[c]) : c \in Callers}

SessionCells ==
  {BUILDS_NAMESPACE} \X {buildKey(u, ACTIVE_BUILD_KEY) : u \in SessionUsers}

\* the values of randomUUID()
GeneratedIds == {"s1", "s2"}

\* names every object literal inherits from Object.prototype
ObjectPrototype == {"constructor"}

\* the mcp-session-id header of a request ("" when there is none)
SessionIdInputs == {""} \cup GeneratedIds \cup {"s9"} \cup ObjectPrototype

\* the requests: the method, the session header and what the body asks for
Requests ==
  [method : {"POST"}, sessionId : SessionIdInputs,
   body : {"initialize", "getCurrentBuild", "updateCarConfig"}]
  \cup [method : {"GET"}, sessionId : SessionIdInputs, body : {""}]

isInitializeRequest(body) == body = "initialize"

\* a transport connected to the server getServer(req) built, whose tool
\* handlers close over that request's identity
Transport(identity) == [handleRequest |-> TRUE, identity |-> identity]

\* what transports[sessionId] gives for a name of Object.prototype
Inherited == [handleRequest |-> FALSE, identity |-> <<>>]

\* transports[sessionId]
transportsAt(sessionId) ==
  IF sessionId \in GeneratedIds /\ transports[sessionId] # None
  THEN transports[sessionId]
  ELSE IF sessionId \in ObjectPrototype THEN Some(Inherited) ELSE None

FreeIds == {id \in GeneratedIds : transports[id] = None}

Initializing == {c \in Callers : At(c, {"initialize"}, "connect")}

\* res.status(status).json(...): the response to the request
respond(c, req, status, note) ==
  /\ ret' = Returned("mcpHandler", c, req.method, req.sessionId, None,
                     Some(status), note)
  /\ UNCHANGED <<store, now, pend, obs, open, transports>>

\* transport.handleRequest(req, res, req.body) of a registered transport:
\* a GET opens the event stream, a tool call runs the tool handler of the
\* transport's server
handleRequest(c, transport, req) ==
  IF req.method = "GET" THEN respond(c, req, 200, "stream")
  ELSE IF req.body = "getCurrentBuild"
  THEN getCurrentBuild(c, transport.identity)
  ELSE IF req.body = "updateCarConfig"
  THEN \E updates \in CarUpdates :
         updateCarConfig(c, transport.identity, updates)
  ELSE respond(c, req, 400, "Server already initialized")

\* mcpHandler up to its first await
mcpHandler(c, req) ==
  /\ Idle(c)
  /\ IF req.method = "POST" /\ req.sessionId = ""
        /\ isInitializeRequest(req.body)
     THEN /\ Cardinality(FreeIds) > Cardinality(Initializing)
          /\ pend' = [pend EXCEPT ![c] =
               Some(Frame("initialize", "connect",
                          resolveIdentity(HeaderSub[c]), <<>>, <<>>,
                          NoUpdates, None, None))]
          /\ UNCHANGED <<store, now, ret, obs, open, transports>>
     ELSE IF req.sessionId # "" /\ transportsAt(req.sessionId) # None
     THEN LET transport == transportsAt(req.sessionId)[1]
          IN IF transport.handleRequest
             THEN handleRequest(c, transport, req)
             ELSE respond(c, req, 500, "Internal server error")
     ELSE IF req.method = "POST" /\ req.sessionId = ""
     THEN respond(c, req, 400,
                  "Session ID required for non-initialization requests")
     ELSE IF req.sessionId # "" /\ transportsAt(req.sessionId) = None
     THEN respond(c, req, 404, "Session not found")
     ELSE respond(c, req, 200, "server info")

\* the initialization after `await server.connect(transport)`: the transport
\* handles the request, generates the session id, onsessioninitialized
\* registers the transport, and the response carries the id
initializeResumes(c) ==
  /\ At(c, {"initialize"}, "connect")
  /\ \E id \in FreeIds :
       /\ transports' = [transports EXCEPT ![id] =
            Some(Transport(pend[c][1].userId))]
       /\ ret' = Returned("mcpHandler", c, "POST", "", None, Some(200), id)
  /\ pend' = [pend EXCEPT ![c] = None]
  /\ UNCHANGED <<store, now, obs, open>>

InitSessions ==
  /\ store = [k \in SessionCells |-> None]
  /\ now = 0
  /\ pend = [c \in Callers |-> None]
  /\ ret = NoRet
  /\ obs = ObsOff
  /\ open = TRUE
  /\ transports = [id \in GeneratedIds |-> None]

NextSessions ==
  \/ \E c \in Callers, req \in Requests : mcpHandler(c, req)
  \/ \E c \in Callers : initializeResumes(c)
  \/ \E c \in Callers : getCurrentBuildResumes(c)
  \/ \E c \in Callers : updateCarConfigResumes(c)

SpecSessions == InitSessions /\ [][NextSessions]_vars

----------------------------------------------------------------------------
(* Steps, as seen from the variables *)

\* caller c's CAS set passes its await and returns or throws
Resumes(c) == pend[c] # None /\ pend'[c] = None

\* caller c's CAS set has run its internal get and waits
Awaits(c) == pend[c] = None /\ pend'[c] # None

\* caller c's set without cas returns (it always changes the row)
Upserts(c) ==
  /\ pend[c] = None /\ pend' = pend
  /\ ret'.op = "set" /\ ret'.c = c /\ ret'.cas = None
  /\ store'[K(ret'.ns, ret'.key)] # None
  /\ store'[K(ret'.ns, ret'.key)] # store[K(ret'.ns, ret'.key)]

Live(db, ns, key, t) ==
  db[K(ns, key)] # None /\ ~isExpired(db[K(ns, key)][1], t)

\* caller c's set, with or without cas, returns a version
Succeeds(c) == Upserts(c) \/ (Resumes(c) /\ ret'.err = "")

\* caller c's delete of (ns, key) returns
Deletes(c, ns, key) ==
  ret'.op = "delete" /\ ret'.c = c /\ delete(c, ns, key)

\* the instants at which an entry may be read: the clock's values and later
Times == {i * TickMs : i \in 0 .. MaxTicks + 3}

\* the expiration a ttl asks for at time t: none for an absent or zero ttl
Expiration(ttl, t) ==
  IF ttl = None \/ ttl = Some(0) THEN None ELSE Some(t + ttl[1] * 1000)

----------------------------------------------------------------------------
(* Compare-and-set *)

\* C1: when a set with cas = v reads version v from a live key and the row
\* still has version v at its UPDATE, the set returns v + 1, the row holds
\* the new value at version v + 1, and a get that follows returns that value
\* with metadata.version = v + 1 (as long as the new entry has not expired).
C1_CasSucceeds ==
  [][\A c \in Callers :
       Resumes(c) =>
         LET f == pend[c][1]
             k == K(f.ns, f.key)
             after == getResult(store', f.ns, f.key, None, now')
         IN (/\ f.current # None
             /\ f.current[1].metadata.version = f.cas
             /\ store[k] # None
             /\ store[k][1].version = f.cas)
            => /\ ret' = Returned("set", c, f.ns, f.key, Some(f.cas),
                                  Some(f.cas + 1), f.note)
               /\ store'[k] # None
               /\ store'[k][1].version = f.cas + 1
               /\ store'[k][1].value = f.serialized
               /\ store'[k][1].content_type = f.contentType
               /\ Live(store', f.ns, f.key, now')
                    => /\ after # None
                       /\ after[1].value = f.value
                       /\ after[1].metadata.version = f.cas + 1]_vars

C1_Witness ==
  /\ ret.op = "set" /\ ret.err = "" /\ ret.cas # None
  /\ ret.out = Some(ret.cas[1] + 1)
  /\ Live(store, ret.ns, ret.key, now)
  /\ store[K(ret.ns, ret.key)][1].version = ret.cas[1] + 1
  /\ parse(store[K(ret.ns, ret.key)][1]) = Payload(ret.c).value

\* C2: a set with cas # v on a live key at version v leaves the row as it is
\* when it reads the version, and then throws the version-mismatch error,
\* writes nothing and ends (no retry).
C2_CasMismatch ==
  [][\A c \in Callers :
       /\ Awaits(c) =>
            LET f == pend'[c][1]
                k == K(f.ns, f.key)
            IN (Live(store, f.ns, f.key, now) /\ store[k][1].version # f.cas)
               => /\ store' = store
                  /\ f.current # None
                  /\ f.current[1].metadata.version = store[k][1].version
       /\ Resumes(c) =>
            LET f == pend[c][1]
            IN (f.current # None /\ f.current[1].metadata.version # f.cas)
               => /\ ret' = Thrown("set", c, f.ns, f.key, Some(f.cas),
                                   "version mismatch", f.note)
                  /\ store' = store]_vars

C2_Witness ==
  /\ ret.op = "set" /\ ret.err = "version mismatch"
  /\ Live(store, ret.ns, ret.key, now)
  /\ store[K(ret.ns, ret.key)][1].version # ret.cas[1]
  /\ pend[ret.c] = None

\* C3: a set with cas on a key that is absent or expired (the expired row may
\* still be stored) finds no current entry, leaves no row behind its read,
\* so that a get then returns absent, and throws the does-not-exist CAS
\* error without writing.
C3_CasOnAbsent ==
  [][\A c \in Callers :
       /\ Awaits(c) =>
            LET f == pend'[c][1]
                k == K(f.ns, f.key)
            IN ~Live(store, f.ns, f.key, now)
               => /\ f.current = None
                  /\ store'[k] = None
                  /\ getResult(store', f.ns, f.key, None, now') = None
       /\ Resumes(c) =>
            LET f == pend[c][1]
            IN f.current = None
               => /\ ret' = Thrown("set", c, f.ns, f.key, Some(f.cas),
                                   "does not exist", f.note)
                  /\ store' = store]_vars

C3_Witness ==
  /\ ret.op = "set" /\ ret.err = "does not exist" /\ ret.note = "purged"
  /\ store[K(ret.ns, ret.key)] = None
  /\ getResult(store, ret.ns, ret.key, None, now) = None

\* C4: two callers have both read version v of the same live key for a set
\* with cas = v.  Whichever passes its await first returns v + 1 and its
\* value is stored; the other then throws a CAS error and writes nothing, so
\* the row stays at version v + 1 with the winner's value.
C4_OneWinner ==
  [][\A c \in Callers :
       Resumes(c) =>
         LET f == pend[c][1]
             k == K(f.ns, f.key)
             readV == f.current # None
                      /\ f.current[1].metadata.version = f.cas
         IN /\ (/\ readV
                /\ store[k] # None /\ store[k][1].version = f.cas
                /\ \E d \in Callers \ {c} :
                     /\ pend[d] # None
                     /\ K(pend[d][1].ns, pend[d][1].key) = k
                     /\ pend[d][1].cas = f.cas
                     /\ pend[d][1].current = f.current)
               => /\ ret'.c = c /\ ret'.err = ""
                  /\ ret'.out = Some(f.cas + 1)
                  /\ store'[k][1].version = f.cas + 1
                  /\ store'[k][1].value = f.serialized
            /\ (/\ readV
                /\ ret.op = "set" /\ ret.c # c /\ ret.err = ""
                /\ K(ret.ns, ret.key) = k
                /\ ret.cas = Some(f.cas))
               => /\ ret'.c = c /\ ret'.err \in CasErrors
                  /\ store' = store
                  /\ store[k] # None
                       => /\ store[k][1].version = f.cas + 1
                          /\ parse(store[k][1]) = Payload(ret.c).value]_vars

C4_Witness ==
  \E c \in Callers :
    /\ pend[c] # None
    /\ pend[c][1].current # None
    /\ pend[c][1].current[1].metadata.version = pend[c][1].cas
    /\ ret.op = "set" /\ ret.c # c /\ ret.err = ""
    /\ ret.cas = Some(pend[c][1].cas)
    /\ Live(store, ret.ns, ret.key, now)
    /\ store[K(ret.ns, ret.key)][1].version = pend[c][1].cas + 1

\* C5: while a set that read the version it expects is between that version
\* check (the internal get) and its UPDATE, no other caller's operation on
\* that key takes effect: none completes and the row does not change.
C5_SetAtomic ==
  [][\A c \in Callers :
       (/\ pend[c] # None /\ pend'[c] = pend[c]
        /\ pend[c][1].current # None
        /\ pend[c][1].current[1].metadata.version = pend[c][1].cas)
       => LET k == K(pend[c][1].ns, pend[c][1].key)
          IN /\ store'[k] = store[k]
             /\ ret' = ret \/ K(ret'.ns, ret'.key) # k]_vars

----------------------------------------------------------------------------
(* Lost updates *)

\* C6 as stated: when a caller's set with cas = v succeeds after its get
\* returned version v, nothing wrote or removed the row in between.
C6_NoInterveningWrite ==
  (obs # None /\ obs[1].used) => obs[1].since = "clean"

\* C6 as amended: when a caller's set with cas = v succeeds after its get
\* returned version v, then in between either nothing wrote or removed the
\* row, or the row was removed (by delete or by the cleanup of an expired
\* row) and created again; a write to the row that stayed is always detected.
C6_LostUpdateDetected ==
  (obs # None /\ obs[1].used) => obs[1].since \in {"clean", "removed"}

C6_Witness ==
  /\ obs # None /\ obs[1].used /\ obs[1].since = "clean"
  /\ ret.op = "set" /\ ret.err = "" /\ ret.cas # None

----------------------------------------------------------------------------
(* Versions *)

\* C7: every set that succeeds, with or without cas, returns the version the
\* row had plus 1, or 1 when there was no row, and stores that version; a
\* stored version is at least 1 and never decreases while the row stays.
C7_VersionsCount ==
  [][/\ \A c \in Callers :
          (Upserts(c) \/ (Resumes(c) /\ ret'.err = ""))
          => LET k == K(ret'.ns, ret'.key)
             IN /\ ret'.out = Some(IF store[k] = None THEN 1
                                   ELSE store[k][1].version + 1)
                /\ store'[k] # None
                /\ store'[k][1].version = ret'.out[1]
     /\ \A k \in DOMAIN store :
          store'[k] # None
          => /\ store'[k][1].version >= 1
             /\ store[k] # None
                  => store'[k][1].version >= store[k][1].version]_vars

C7_Witness ==
  /\ ret.op = "set" /\ ret.err = "" /\ ret.cas = None
  /\ ret.out = Some(MaxVersion)
  /\ store[K(ret.ns, ret.key)] # None
  /\ store[K(ret.ns, ret.key)][1].version = MaxVersion

\* C8: a set without cas on an expired key returns version 1, also when the
\* expired row is still stored.
C8_ExpiredRestartsAtOne ==
  [][\A c \in Callers :
       Upserts(c)
       => LET k == K(ret'.ns, ret'.key)
          IN (store[k] # None /\ isExpired(store[k][1], now))
             => ret'.out = Some(1)]_vars

\* C9: the set without cas that directly follows a delete that returned true
\* for the same key returns version 1.
C9_DeleteThenSet ==
  (ret.op = "set" /\ ret.note = "after delete") => ret.out = Some(1)

C9_Witness ==
  /\ ret.op = "set" /\ ret.note = "after delete" /\ ret.out = Some(1)
  /\ store[K(ret.ns, ret.key)] # None
  /\ store[K(ret.ns, ret.key)][1].version = 1

----------------------------------------------------------------------------
(* Expiration *)

\* C10: in every reachable state, at the current time, what get returns for
\* any key and any content type filter is absent or an entry whose expiresAt
\* is null or later than now; and a get that met a stored expired row
\* returned absent.
C10_GetNeverExpired ==
  /\ \A ns \in Namespaces, key \in KeyNames, o \in Opt(ContentTypes) :
       LET r == getResult(store, ns, key, o, now)
       IN r # None
          => \/ r[1].metadata.expiresAt = None
             \/ r[1].metadata.expiresAt[1] > now
  /\ (ret.op = "get" /\ ret.note = "purged") => ret.out = None

C10_Witness ==
  ret.op = "get" /\ ret.note = "purged" /\ ret.out = None

----------------------------------------------------------------------------
(* Value, content type and expiration of a write *)

\* C11: after a set with content type ct succeeded with version n, a get of
\* the key returns the value, ct and n of that set together for as long as
\* the entry is live; the stored row changes only by a set that succeeds
\* (which replaces value and content type together), and goes away only by
\* a delete or once it has expired.
C11_ValueWithType ==
  [][/\ \A c \in Callers :
          Succeeds(c)
          => LET r == getResult(store', ret'.ns, ret'.key, None, now')
             IN Live(store', ret'.ns, ret'.key, now')
                => /\ r # None
                   /\ r[1].value = Payload(c).value
                   /\ r[1].metadata.contentType
                        = contentTypeOf(Payload(c).contentType)
                   /\ r[1].metadata.version = ret'.out[1]
     /\ \A k \in DOMAIN store :
          /\ (store'[k] # store[k] /\ store'[k] # None)
             => \E c \in Callers :
                  Succeeds(c) /\ K(ret'.ns, ret'.key) = k
          /\ (store[k] # None /\ store'[k] = None)
             => \/ ret'.op = "delete" /\ K(ret'.ns, ret'.key) = k
                \/ isExpired(store[k][1], now)]_vars

C11_Witness ==
  /\ ret.op = "set" /\ ret.err = "" /\ ret.c = "c1" /\ ret.cas = Some(1)
  /\ LET r == getResult(store, ret.ns, ret.key, None, now)
     IN /\ r # None
        /\ r[1].value = <<"red">>
        /\ r[1].metadata.contentType = JSON
        /\ r[1].metadata.version = 2

\* C12: an entry set at time t with no ttl or ttl = 0 is returned by get at
\* every later time, and an entry set with ttl = s > 0 is returned by get at
\* the times before t + s seconds and at no time from t + s seconds on
\* (as long as the row is the one that set wrote).  t is the time at which
\* set was called; a set with cas writes after its await what it computed
\* at t.
C12_TtlSemantics ==
  [][\A c \in Callers, ttl \in TtlOptions :
       LET p == Payload(c)
           Readable(ns, key, t2) == getResult(store', ns, key, None, t2) # None
       IN /\ (/\ Upserts(c)
               /\ set(c, ret'.ns, ret'.key, p.value, ttl, p.contentType, None))
             => \A t2 \in Times :
                  t2 >= now
                  => (Readable(ret'.ns, ret'.key, t2)
                      <=> (\/ ttl = None \/ ttl = Some(0)
                           \/ t2 < now + ttl[1] * 1000))
          /\ (/\ Awaits(c)
               /\ set(c, pend'[c][1].ns, pend'[c][1].key, p.value, ttl,
                      p.contentType, Some(pend'[c][1].cas)))
             => /\ pend'[c][1].now = now
                /\ pend'[c][1].expiresAt # None
                     <=> (ttl # None /\ ttl # Some(0))
                /\ pend'[c][1].expiresAt # None
                     => pend'[c][1].expiresAt[1] = now + ttl[1] * 1000
          /\ (Resumes(c) /\ ret'.err = "")
             => \A t2 \in Times :
                  t2 >= now
                  => (Readable(pend[c][1].ns, pend[c][1].key, t2)
                      <=> (\/ pend[c][1].expiresAt = None
                           \/ t2 < pend[c][1].expiresAt[1]))]_vars

C12_Witness ==
  /\ ret.op = "set" /\ ret.err = ""
  /\ LET k == K(ret.ns, ret.key)
     IN /\ store[k] # None
        /\ store[k][1].expires_at = Some(store[k][1].updated_at + 1000)
        /\ now > store[k][1].updated_at
        /\ getResult(store, ret.ns, ret.key, None, now) # None
        /\ getResult(store, ret.ns, ret.key, None,
                     store[k][1].expires_at[1]) = None

\* C13: every set that succeeds leaves the entry with the expiration its own
\* ttl asks for, whatever expiration the entry had: now + ttl seconds for a
\* ttl, none without one (a ttl of 0 counts as none), where now is the time
\* at which set was called.
C13_ExpirationReplaced ==
  [][\A c \in Callers, ttl \in TtlOptions :
       LET p == Payload(c)
       IN /\ (/\ Upserts(c)
               /\ set(c, ret'.ns, ret'.key, p.value, ttl, p.contentType, None))
             => store'[K(ret'.ns, ret'.key)][1].expires_at
                  = Expiration(ttl, now)
          /\ (/\ Awaits(c)
               /\ set(c, pend'[c][1].ns, pend'[c][1].key, p.value, ttl,
                      p.contentType, Some(pend'[c][1].cas)))
             => pend'[c][1].expiresAt = Expiration(ttl, now)
          /\ (Resumes(c) /\ ret'.err = "")
             => store'[K(pend[c][1].ns, pend[c][1].key)][1].expires_at
                  = pend[c][1].expiresAt]_vars

C13_Witness ==
  /\ ret.op = "set" /\ ret.err = "" /\ ret.note = "over ttl"
  /\ store[K(ret.ns, ret.key)] # None
  /\ store[K(ret.ns, ret.key)][1].expires_at = None

----------------------------------------------------------------------------
(* Content type filter of get *)

\* C14: a get whose contentType option differs from the content type of the
\* live entry returns absent and leaves the row as it is; a get whose option
\* equals it returns what a get without the option returns.
C14_FilterMismatchAbsent ==
  [][\A c \in Callers, ns \in Namespaces, key \in KeyNames,
        o \in GetOptions \ {None} :
       (/\ ret'.op = "get" /\ ret'.c = c
        /\ Live(store, ns, key, now)
        /\ get(c, ns, key, o))
       => /\ store' = store
          /\ ret'.out = IF o[1] # store[K(ns, key)][1].content_type
                        THEN None
                        ELSE getResult(store, ns, key, None, now)]_vars

----------------------------------------------------------------------------
(* delete *)

\* C15: a delete of a key with no row returns false and changes nothing; a
\* delete of a live key returns true and leaves no row, so that a get then
\* returns absent and a second delete finds nothing to remove.
C15_DeleteResult ==
  [][\A c \in Callers, ns \in Namespaces, key \in KeyNames :
       Deletes(c, ns, key)
       => /\ store[K(ns, key)] = None
             => (ret'.out = Some(FALSE) /\ store' = store)
          /\ Live(store, ns, key, now)
             => /\ ret'.out = Some(TRUE)
                /\ store'[K(ns, key)] = None
                /\ getResult(store', ns, key, None, now') = None
                /\ deleteRow(store', ns, key) = store']_vars

\* at time 0 nothing has expired: the deleted key was live
C15_Witness ==
  /\ ret.op = "delete" /\ ret.out = Some(TRUE) /\ now = 0
  /\ store[K(ret.ns, ret.key)] = None
  /\ getResult(store, ret.ns, ret.key, None, now) = None

\* C16: a delete of a key that has expired returns false, also when the
\* expired row is still stored.
C16_DeleteExpiredFalse ==
  [][\A c \in Callers, ns \in Namespaces, key \in KeyNames :
       (Deletes(c, ns, key) /\ ~Live(store, ns, key, now))
       => ret'.out = Some(FALSE)]_vars

----------------------------------------------------------------------------
(* list *)

\* the live keys of a namespace
LiveKeys(db, ns, t) == {k \in KeysOf(db, ns) : Live(db, ns, k, t)}

\* key literally starts with prefix
StartsWith(key, prefix) ==
  Len(prefix) <= Len(key) /\ SubSeq(key, 1, Len(prefix)) = prefix

\* the prefixes asked about: "", "a", "A", "a_", "ab", "%"
PrefixStrings ==
  {<<>>, <<Ascii.a>>, <<Ascii.A>>, <<Ascii.a, Ascii.underscore>>,
   <<Ascii.a, Ascii.b>>, <<Ascii.percent>>}

\* the live keys a call is about: those that start with the prefix, if one
\* is given, and come after the key the cursor encodes, if one is given
Matching(db, ns, cursor, prefix, t) ==
  {k \in LiveKeys(db, ns, t) :
     /\ prefix # None => StartsWith(k, prefix[1])
     /\ cursor # None => KeyLess(base64decode(cursor[1]), k)}

\* C17: in every reachable state, at the current time, every key that list
\* returns, for any namespace, limit, cursor and prefix, is the key of a
\* stored entry whose expiresAt is null or later than now.
C17_ListNeverExpired ==
  \A ns \in ListNamespaces, limit \in LimitInputs, cursor \in CursorInputs,
     prefix \in Opt(PrefixStrings) :
    LET keys == listResult(store, ns, limit, cursor, prefix, now).keys
    IN \A i \in 1 .. Len(keys) : Live(store, ns, keys[i], now)

C17_Witness ==
  /\ ret.op = "list" /\ ret.note = "expired stored"
  /\ anyExpired(store, ret.ns, now)
  /\ LiveKeys(store, ret.ns, now) # {}
  /\ ret.out[1].keys = <<>>

\* C18: for every prefix p, list with prefix p and a limit of at least the
\* number of keys returns exactly the live keys of the namespace that
\* literally start with p, in ascending order.
C18_PrefixExact ==
  \A ns \in ListNamespaces, p \in PrefixStrings :
    listResult(store, ns, None, None, Some(p), now).keys
      = OrderByKey({k \in LiveKeys(store, ns, now) : StartsWith(k, p)})

\* the pages of a scan of an unchanging namespace: list is called with the
\* cursor of the page before until it returns no cursor
RECURSIVE Scan(_, _, _, _, _, _)
Scan(db, ns, limit, cursor, t, calls) ==
  LET page == listResult(db, ns, limit, cursor, None, t)
  IN IF page.cursor = None \/ calls = 1
     THEN [keys |-> page.keys, ended |-> page.cursor = None]
     ELSE LET rest == Scan(db, ns, limit, page.cursor, t, calls - 1)
          IN [keys |-> page.keys \o rest.keys, ended |-> rest.ended]

\* C19: for a namespace that does not change, with N live keys, and a limit
\* L >= 1, the scan ends (within N + 1 calls) and its pages together are
\* the N live keys, each once, in ascending order.
C19_ScanComplete ==
  \A ns \in ListNamespaces, L \in 1 .. Cardinality(ListKeys) :
    Scan(store, ns, Some(L), None, now,
         Cardinality(LiveKeys(store, ns, now)) + 1)
      = [keys |-> OrderByKey(LiveKeys(store, ns, now)), ended |-> TRUE]

\* C20: for every call of list with a limit L >= 1, where m is the number of
\* live matching keys after the cursor position: the page has min(L, m)
\* keys, the returned cursor is not null exactly when m > L, and a returned
\* cursor encodes the last key of the page, which is live.  The prefixes
\* here are those for which LIKE and a literal comparison select the same
\* keys (none, "" and "ab"), so that only the counting is in question.
C20_PageAndCursor ==
  \A ns \in ListNamespaces, L \in 1 .. Cardinality(ListKeys),
     cursor \in CursorInputs, prefix \in Opt({<<>>, <<Ascii.a, Ascii.b>>}) :
    LET page == listResult(store, ns, Some(L), cursor, prefix, now)
        m == Cardinality(Matching(store, ns, cursor, prefix, now))
    IN /\ Len(page.keys) = IF L < m THEN L ELSE m
       /\ page.cursor # None <=> m > L
       /\ page.cursor # None
            => /\ page.keys # <<>>
               /\ page.cursor[1] = base64encode(page.keys[Len(page.keys)])
               /\ Live(store, ns, page.keys[Len(page.keys)], now)

\* the first count elements of a sequence
Take(seq, count) == SubSeq(seq, 1, IF Len(seq) < count THEN Len(seq) ELSE count)

\* C21: whenever list returns a cursor (it encodes the last key k of the
\* page), the call that passes this cursor back on the same entries returns
\* only keys greater than k, and they are the first live keys greater than
\* k: none is skipped.
C21_CursorResumes ==
  \A limit \in LimitInputs, cursor \in CursorTokens :
    LET page == listResult(store, "builds", limit, cursor, None, now)
        k == page.keys[Len(page.keys)]
        next == listResult(store, "builds", limit, page.cursor, None, now)
    IN page.cursor # None
         => /\ \A i \in 1 .. Len(next.keys) : KeyLess(k, next.keys[i])
            /\ next.keys = Take(OrderByKey({x \in LiveKeys(store, "builds", now) :
                                              KeyLess(k, x)}), limit[1])

\* C22: a list call whose cursor is not the encoding of a key fails with an
\* invalid-cursor error and returns no page.
C22_InvalidCursorFails ==
  [][\A limit \in LimitInputs, cursor \in UndecodableCursors :
       (ret'.op = "list" /\ list("c1", "builds", limit, Some(cursor), None))
         => ret'.err # "" /\ ret'.out = None]_vars

\* the tables a reader may find for the same entries: the table itself, the
\* table after a sweep, and the table after the lazy cleanup of one key
Cleaned(db, t) ==
  {db, deleteAllExpired(db, t)}
    \cup {cleanupExpired(db, k[1], k[2], t) : k \in DOMAIN db}

\* C23: in every reachable state, at the current time, every get and every
\* list returns the same result on the table as it is and on the table from
\* which expired rows have been removed (all of them by cleanupAllExpired,
\* or one of them by the lazy cleanup of a get).
C23_CleanupUnobservable ==
  \A db \in Cleaned(store, now) :
    /\ \A k \in ListCells :
         getResult(db, k[1], k[2], None, now)
           = getResult(store, k[1], k[2], None, now)
    /\ \A ns \in ListNamespaces, limit \in LimitInputs,
          cursor \in CursorInputs :
         listResult(db, ns, limit, cursor, None, now)
           = listResult(store, ns, limit, cursor, None, now)

\* C24: a call of cleanupAllExpired removes the rows, of every namespace,
\* that have an expiration at or before the current time, leaves every
\* other row as it is, and returns the number of rows it removed; called
\* again on the table it leaves, at the same time, it removes nothing and
\* returns 0.
C24_SweepExact ==
  [][(now' = now /\ ret'.op = "cleanupAllExpired" /\ ret'.err = "")
       => LET gone == {k \in DOMAIN store :
                        /\ store[k] # None
                        /\ store[k][1].expires_at # None
                        /\ store[k][1].expires_at[1] <= now}
          IN /\ \A k \in DOMAIN store :
                  store'[k] = IF k \in gone THEN None ELSE store[k]
             /\ ret'.out = Some(Cardinality(gone))
             /\ deleteAllExpired(store', now') = store'
             /\ changes(store', deleteAllExpired(store', now')) = 0]_vars

C24_Witness ==
  /\ ret.op = "cleanupAllExpired" /\ ret.err = ""
  /\ ret.out = Some(Cardinality(ListKeys))
  /\ \E k \in ListKeys :
       /\ store[K("builds", k)] # None
       /\ store[K("builds", k)][1].expires_at = None
  /\ store[K("garage", <<Ascii.a, Ascii.b>>)] = None

\* a row that expired at time 0
ExpiredRow ==
  [value |-> serialize(Payload("c1").value, JSON), content_type |-> JSON,
   expires_at |-> Some(0), version |-> 1, updated_at |-> 0]

\* the tables that agree with db on namespace ns and hold, in each cell of
\* the other namespaces, nothing or an expired row
Elsewhere(db, ns) ==
  {[k \in DOMAIN db |->
      IF k[1] = ns THEN db[k]
      ELSE IF k \in S THEN Some(ExpiredRow) ELSE None] :
     S \in SUBSET {k \in DOMAIN db : k[1] # ns}}

\* C27: a get, set or delete on (ns1, k1) leaves the row of every other
\* (namespace, key) pair as it was, including the row of the same key in
\* another namespace and the rows of other keys in the same namespace; and
\* list on a namespace returns the same page whatever the other namespaces
\* hold.
C27_Isolation ==
  [][/\ (now' = now /\ ret'.op \in {"get", "set", "delete"})
          => \A k \in DOMAIN store :
               k # K(ret'.ns, ret'.key) => store'[k] = store[k]
     /\ (store' # store \/ now' # now)
          => \A ns \in ListNamespaces, limit \in Opt({1}),
                cursor \in Opt({base64encode(<<Ascii.A>>)}) :
               \A db \in Elsewhere(store', ns) :
                 listResult(db, ns, limit, cursor, None, now')
                   = listResult(store', ns, limit, cursor, None, now')]_vars

C27_Witness ==
  /\ ret.op = "get" /\ ret.note = "purged"
  /\ ret.ns = "builds" /\ ret.key = <<Ascii.a, Ascii.b>>
  /\ store[K("builds", ret.key)] = None
  /\ store[K("garage", ret.key)] # None
  /\ isExpired(store[K("garage", ret.key)][1], now)
  /\ \E k \in ListKeys :
       /\ store[K("builds", k)] # None
       /\ isExpired(store[K("builds", k)][1], now)

----------------------------------------------------------------------------
(* the connection *)

\* a step in which an operation returned or threw (ret is written; the
\* clock and the suspended sets of other callers stay as they are)
Completes(op) == now' = now /\ ret'.op = op /\ (pend' = pend \/ op = "set")

\* C25: every call of healthcheck returns, without an error: true when the
\* connection is open and false when it has been closed; the call leaves
\* the table, the suspended sets and the connection as they are.
C25_HealthcheckTotal ==
  [][Completes("healthcheck")
       => /\ ret'.err = ""
          /\ ret'.out = Some(open)
          /\ UNCHANGED <<store, pend, obs, open>>]_vars

C25_Witness ==
  /\ ~open
  /\ ret.op = "healthcheck" /\ ret.err = "" /\ ret.out = Some(FALSE)
  /\ \E k \in DOMAIN store : store[k] # None

\* C26: a call of close leaves the connection closed; from then on the
\* connection stays closed, the table is never changed again, and every
\* get, set, delete and list that completes (a set suspended at the time of
\* close included) completes with an error and no result.
C26_CloseTerminal ==
  [][/\ Completes("close") => ~open'
     /\ ~open
          => /\ ~open'
             /\ store' = store
             /\ (ret' # ret /\ ret'.op \in {"get", "set", "delete", "list"})
                  => ret'.err # "" /\ ret'.out = None]_vars

C26_Witness ==
  /\ ~open
  /\ ret.op = "set" /\ ret.cas # None /\ ret.err = NotOpen
  /\ \E k \in DOMAIN store : store[k] # None /\ store[k][1].version = ret.cas[1]

----------------------------------------------------------------------------
(* KVHelpers *)

\* C28: a step of getJSON(ns, k) is a step of get(ns, k, {contentType:
\* 'application/json'}) and conversely, so that it returns nothing for an
\* entry stored with another content type; a step of setJSON(ns, k, v, o) is
\* a step of set(ns, k, v, {ttl: o.ttl, cas: o.cas, contentType:
\* 'application/json'}) and conversely, whatever o holds.
C28_HelpersPassThrough ==
  [][\A ns \in Namespaces, key \in KeyNames :
       /\ Completes("get")
            => /\ getJSON("c1", ns, key) <=> get("c1", ns, key, Some(JSON))
               /\ (/\ getJSON("c1", ns, key)
                   /\ store'[K(ns, key)] # None
                   /\ store'[K(ns, key)][1].content_type # JSON)
                    => ret'.out = None
       /\ (Upserts("c1") \/ Awaits("c1"))
            => \A options \in HelperOptions :
                 setJSON("c1", ns, key, Payload("c1").value, options)
                   <=> set("c1", ns, key, Payload("c1").value, options.ttl,
                           Some(JSON), options.cas)]_vars

C28_Witness ==
  /\ ret.op = "set" /\ ret.c = "c1" /\ ret.err = "" /\ ret.cas = Some(1)
  /\ ret.out = Some(2)
  /\ LET row == store[K(ret.ns, ret.key)]
     IN /\ row # None
        /\ row[1].content_type = JSON
        /\ row[1].version = 2
        /\ row[1].expires_at # None
        /\ row[1].value = serialize(Payload("c1").value, JSON)

----------------------------------------------------------------------------
(* The build tools *)

ActiveKey(userId) == K(BUILDS_NAMESPACE, buildKey(userId, ACTIVE_BUILD_KEY))

\* the build stored under a key
StoredBuild(db, userId, buildId, t) ==
  BuildOf(readJSON(db, buildKey(userId, buildId), t))

\* C29: a call of deleteBuild with buildId 'active' throws and leaves the
\* table as it is; and no call of deleteBuild by a user, whatever its
\* buildId, changes the row of that user's active build.
C29_ActiveNotDeletable ==
  [][\A u \in UserIds :
       Completes("deleteBuild")
         => /\ ret'.key = buildKey(u, ACTIVE_BUILD_KEY)
                 => ret'.err # "" /\ ret'.out = None /\ store' = store
            /\ store'[ActiveKey(u)] = store[ActiveKey(u)]]_vars

C29_Witness ==
  /\ ret.op = "deleteBuild"
  /\ ret.err = "Cannot delete the active build"
  /\ \E u \in UserIds :
       /\ ret.key = buildKey(u, ACTIVE_BUILD_KEY)
       /\ store[ActiveKey(u)] # None
       /\ store[K(BUILDS_NAMESPACE, buildKey(u, <<Ascii.a>>))] # None

\* caller c's loadBuild passes its await and returns or throws
LoadResumes(c) ==
  /\ pend[c] # None /\ pend[c][1].tool = "loadBuild" /\ pend'[c] = None

\* what a step of loadBuild after its await does, where found is the
\* build its getJSON returned: without one it throws not-found and changes
\* nothing; with one it returns, and the active build then has the car,
\* the driver of the build found and the id 'active'
LoadOutcome(c) ==
  LET f == pend[c][1]
  IN IF f.result = None
     THEN ret'.err = "not found" /\ ret'.out = None /\ store' = store
     ELSE /\ ret'.err = ""
          /\ LET found == BuildOf(f.result)
                 active == StoredBuild(store', f.userId, ACTIVE_BUILD_KEY,
                                       now')
             IN /\ active.car = found.car
                /\ active.driver = found.driver
                /\ active.id = ACTIVE_BUILD_KEY
                /\ ret'.out = Some(active)

\* C30 as stated: a loadBuild that succeeds leaves the entry it loaded
\* from unchanged, for every buildId.
C30_LoadLeavesSource ==
  [][\A c \in Callers :
       LoadResumes(c)
         => /\ LoadOutcome(c)
            /\ LET f == pend[c][1]
               IN store'[K(BUILDS_NAMESPACE, buildKey(f.userId, f.buildId))]
                    = store[K(BUILDS_NAMESPACE,
                              buildKey(f.userId, f.buildId))]]_vars

\* C30, amended: loadBuild reads the entry of buildId and, after its await,
\* throws not-found if there was none (changing nothing), and otherwise
\* writes to the active build the car and driver it read, with id 'active',
\* and returns that build; it changes no entry but the active build's, so
\* the entry of a saved build (buildId other than 'active') is unchanged,
\* while loadBuild('active') rewrites the active build itself.
C30_LoadCopies ==
  [][\A c \in Callers :
       /\ LoadResumes(c)
            => /\ LoadOutcome(c)
               /\ LET f == pend[c][1]
                  IN /\ \A k \in DOMAIN store :
                          k # ActiveKey(f.userId) => store'[k] = store[k]
                     /\ (f.result # None /\ f.buildId = ACTIVE_BUILD_KEY)
                          => store'[ActiveKey(f.userId)]
                               # store[ActiveKey(f.userId)]
       /\ (Awaits(c) /\ pend'[c][1].tool = "loadBuild")
            => /\ store' = store
               /\ pend'[c][1].result
                    = readJSON(store, buildKey(pend'[c][1].userId,
                                               pend'[c][1].buildId), now)]_vars

C30_Witness ==
  /\ ret.op = "loadBuild" /\ ret.err = ""
  /\ \E u \in UserIds :
       /\ ret.key = buildKey(u, ACTIVE_BUILD_KEY)
       /\ store[ActiveKey(u)] # None
       /\ store[ActiveKey(u)][1].version = MaxWrites
       /\ store[K(BUILDS_NAMESPACE, buildKey(u, <<Ascii.a>>))] # None
       /\ LET active == StoredBuild(store, u, ACTIVE_BUILD_KEY, now)
              saved == StoredBuild(store, u, <<Ascii.a>>, now)
          IN /\ active.car = saved.car
             /\ active.car.color = "red"
             /\ active.name = Some(<<Ascii.A>>)
             /\ active.id = ACTIVE_BUILD_KEY
             /\ saved.id = <<Ascii.a>>

\* the tools of the model that are registered with readOnlyHint: true
ReadOnlyTools == {"getCurrentBuild", "loadBuild"}

\* caller c's call of one of the tools takes a step
ToolSteps(c, tools) ==
  /\ pend'[c] # pend[c]
  /\ \/ pend[c] # None /\ pend[c][1].tool \in tools
     \/ pend[c] = None /\ pend'[c][1].tool \in tools

\* C31: no step of a call of a tool registered with readOnlyHint: true
\* changes the table: it creates, replaces and deletes no entry.
C31_ReadOnlyHint ==
  [][\A c \in Callers :
       ToolSteps(c, ReadOnlyTools) => store' = store]_vars

----------------------------------------------------------------------------
(* createTextResult *)

\* C32: the result of createTextResult(data) has one content element, of
\* type 'text', whose text is JSON.stringify(data, null, 2) when data is not
\* undefined; for undefined the result is that of createTextResult(null),
\* with the text 'null'.
C32_TextResult ==
  ret.op = "createTextResult"
    => LET data == ret.key
           result == ret.out[1]
       IN /\ Len(result.content) = 1
          /\ result.content[1].type = "text"
          /\ data # Undefined
               => /\ result.content[1].text # None
                  /\ result.content[1].text = JSONstringifyIndented(data)
          /\ data = Undefined
               => /\ result = createTextResultOf(Null)
                  /\ result.content[1].text = Some(<<"null">>)

C32_Witness ==
  /\ ret.op = "createTextResult"
  /\ ret.key = Undefined
  /\ ret.out[1].content[1].text = Some(<<"null">>)

----------------------------------------------------------------------------
(* HTTP sessions *)

SessionTools == {"getCurrentBuild", "updateCarConfig"}

\* the frame of caller c's tool call in a step of that call
StepFrame(c) == IF pend[c] # None THEN pend[c][1] ELSE pend'[c][1]

\* C33: every step of a tool call runs under the identity of the headers of
\* the request that carries the call: it reads only that user's build, and
\* the only entry it changes is that user's.
C33_IdentityPerRequest ==
  [][\A c \in Callers :
       ToolSteps(c, SessionTools)
         => /\ StepFrame(c).userId = resolveIdentity(HeaderSub[c])
            /\ \A k \in DOMAIN store :
                 store'[k] # store[k]
                   => k = K(BUILDS_NAMESPACE,
                            buildKey(resolveIdentity(HeaderSub[c]),
                                     ACTIVE_BUILD_KEY))]_vars

----------------------------------------------------------------------------
(* saveBuild *)

\* C34: a saveBuild call that finishes while an entry is stored under the
\* sanitized build id fails with 'already exists' and leaves the table as
\* it is; so of two calls with the same name at most one stores its build,
\* and no call replaces the build another call stored.
C34_SaveNeverOverwrites ==
  [][\A c \in Callers :
       At(c, {"saveBuild"}, "existing") /\ pend'[c] = None
         => LET f == pend[c][1]
            IN store[K(BUILDS_NAMESPACE, buildKey(f.userId, f.buildId))]
                 # None
                 => /\ ret'.err = "already exists"
                    /\ store' = store]_vars

----------------------------------------------------------------------------
(* updateCarConfig, updateDriverProfile *)

UpdateTools == {"updateCarConfig", "updateDriverProfile"}

\* caller c's update stores its build in this step
UpdateStores(c) ==
  /\ pend[c] # None
  /\ pend[c][1].tool \in UpdateTools
  /\ pend[c][1].pc = pend[c][1].tool
  /\ pend'[c] = None
  /\ ret'.err = ""

\* C35: no update of the active build is lost: the step in which an update
\* stores its build changes the fields of its own updates only, so what
\* another update stored in the other fields before it is still there.
C35_UpdatesNotLost ==
  [][\A c \in Callers :
       UpdateStores(c)
         => LET f == pend[c][1]
                before == StoredBuild(store, f.userId, ACTIVE_BUILD_KEY, now)
                after == StoredBuild(store', f.userId, ACTIVE_BUILD_KEY, now)
            IN IF f.tool = "updateDriverProfile"
               THEN after.car = before.car
               ELSE /\ after.driver = before.driver
                    /\ \A field \in DOMAIN before.car :
                         f.updates[field] = None
                           => after.car[field] = before.car[field]]_vars

----------------------------------------------------------------------------
(* the builds of several users *)

\* the keys of the builds of the users other than the visitor
OwnersCells == UNION {KeysOfUser(userId) : userId \in Owners}

\* a step of a call of the visitor
VisitorSteps ==
  \/ pend'["c1"] # pend["c1"]
  \/ ret' # ret /\ ret'.c = "c1"

\* the metadata listBuilds owes the visitor: that of its own saved builds
OwnBuilds(db, userId, t) ==
  LET key == buildKey(userId, <<Ascii.a>>)
  IN IF readJSON(db, key, t) = None THEN <<>>
     ELSE <<BuildMetadata(BuildOf(readJSON(db, key, t)))>>

\* C36: no step of a call made under one user id changes an entry stored
\* under a key of another user, no loadBuild or getBuildDetails of that user
\* obtains such an entry, and listBuilds returns the user's own saved builds
\* only.
C36_UserIsolation ==
  [][VisitorSteps
       => /\ \A k \in OwnersCells : store'[k] = store[k]
          /\ (/\ pend'["c1"] # None
              /\ pend'["c1"][1].tool \in {"loadBuild", "getBuildDetails"}
              /\ pend'["c1"][1].result # None)
               => K(BUILDS_NAMESPACE,
                    buildKey(pend'["c1"][1].userId, pend'["c1"][1].buildId))
                    \notin OwnersCells
          /\ (ret' # ret /\ ret'.op = "listBuilds" /\ ret'.err = "")
               => ret'.out[1].builds = OwnBuilds(store, Visitor, now)]_vars

----------------------------------------------------------------------------
(* Session routing *)

Registered(sessionId) ==
  sessionId \in GeneratedIds /\ transports[sessionId] # None

\* the request of caller c is answered in this step
Responds(c) == ret' # ret /\ ret'.c = c

\* C37: a response ends its request; a request with a session id that is
\* not registered is answered 404, starts no tool call and registers
\* nothing; a POST without session id that is not an initialization is
\* answered 400 and registers nothing; a tool call is started only through
\* a registered transport; and a registered session id stays registered
\* with its transport.
C37_SessionRouting ==
  [][\A c \in Callers :
       /\ Responds(c) => pend'[c] = None
       /\ (Responds(c) /\ ret'.op = "mcpHandler" /\ ret'.key # ""
           /\ ~Registered(ret'.key))
            => /\ ret'.out = Some(404)
               /\ UNCHANGED <<store, pend, transports>>
       /\ (Responds(c) /\ ret'.op = "mcpHandler" /\ ret'.ns = "POST"
           /\ ret'.key = "" /\ pend[c] = None)
            => /\ ret'.out = Some(400)
               /\ UNCHANGED <<store, pend, transports>>
       /\ (pend[c] = None /\ pend'[c] # None
           /\ pend'[c][1].tool \in SessionTools)
            => \E id \in GeneratedIds :
                 /\ Registered(id)
                 /\ transports[id][1].identity = pend'[c][1].userId
       /\ \A id \in GeneratedIds :
            Registered(id) => transports'[id] = transports[id]]_vars

====
